---------------------------- MODULE Spec2Model ----------------------------
(***************************************************************************)
(* Model of the particle background of the FoodRescue landing page         *)
(* (scripts/particles.js, here src/unnamed/part_000) together with the     *)
(* part of scripts/motion.js it reads.                                     *)
(*                                                                         *)
(* Numbers.  The script works on floats; the model works on integers:      *)
(*   - lengths (positions, velocities, canvasWidth/Height of a particle)   *)
(*     are in units of 1/Scale pixel; the container rectangle and the      *)
(*     CONFIG lengths keep the source's pixels;                            *)
(*   - time is in units of 16.67/FrameUnits ms, so the source's            *)
(*     (currentTime - lastFrameTime) / 16.67 is elapsed / FrameUnits; a    *)
(*     deltaTime is carried as its numerator over FrameUnits;              *)
(*   - an alpha is a pair <<numerator, denominator>>.                      *)
(***************************************************************************)
EXTENDS Integers, Sequences, FiniteSets

VARIABLES
    CONFIG,          \* the live configuration object (part_000:12-41)
    rect,            \* container.getBoundingClientRect(), in px
    canvasAttached,  \* canvas.parentNode is the container
    particles,       \* the particle list (part_000:72)
    lines,           \* the connection lines stroked on the canvas since it was last cleared
    animationFrame,  \* stored frame-callback id, Null when none (part_000:73)
    pending,         \* ids of the frame callbacks the browser has scheduled
    isVisible,       \* part_000:74
    lastFrameTime,   \* part_000:75
    motionScale,     \* the constant read once at load (part_000:50)
    hidden,          \* document.hidden
    resizeTimeout,   \* a debounce timer is pending (part_000:275)
    checkMotion,     \* the 1000 ms poll interval is active (part_000:298)
    now,             \* the frame scheduler's clock (performance time)
    motionEnabled,   \* motion.js: motionEnabled
    cssValue,        \* motion.js: the --motion-scale custom property
    lastOp,          \* the handler that ran last ("load" after the scripts ran; "unload": page gone)
    wasRunning,      \* whether a frame callback id was stored when that handler was entered
    container,       \* document.getElementById('particles-container') is an element
    ctxOk,           \* canvas.getContext('2d') gives a context
    motionUtils,     \* window.motionUtils is defined (motion.js ran first)
    registered,      \* what the script has registered: listeners and the global particlesAPI
    threw,           \* an exception escaped the script
    timers,          \* due instants of the live debounce timers (part_000:277-282)
    lastResize,      \* instant of the last resize event
    resizes,         \* resize events so far
    bursts,          \* resize bursts begun so far
    reinits,         \* reinits the debounce timer has performed so far
    storage,         \* motion.js: localStorage item 'motionEnabled' ("null" when absent)
    prefersReducedMotion, \* the (prefers-reduced-motion: reduce) media query matches
    motionToggleBtn, \* motion.js: the page has a .motion-toggle-btn
    liveRegion,      \* motion.js: the page has the #form-status live region
    liveText,        \* text of the live region
    clearTimers,     \* pending 1000 ms timers that empty the live region
    counterScript,   \* which counter script serves the stat counter: "main" or "app"
    target,          \* the counter's data-count / data-target
    hasCounted,      \* main.js:155
    observing,       \* the intersection observer still observes the counter
    running,         \* step counts of the counter animations still scheduled
    textContent,     \* the number the counter shows
    started,         \* calls of animateCounter so far
    ariaExpanded,    \* main.js: aria-expanded of the .mobile-menu-toggle
    menuOpen,        \* main.js: the .nav-menu has the class 'open'
    overflow,        \* main.js: body.style.overflow
    trapAttached,    \* main.js: handleFocusTrap is a keydown listener of the document
    menuItems,       \* number of focusable elements inside the .nav-menu
    firstFocusable,  \* main.js:69
    lastFocusable,   \* main.js:70
    activeElement,   \* document.activeElement
    focusTimers,     \* pending 100 ms timers of trapFocus
    formScript,      \* which script serves the donation form: "form-validation" or "app"
    values,          \* value (checked, for the checkbox) of each required field
    fieldError,      \* the fields that carry the class 'error'
    successHidden,   \* #form-success is hidden
    errorHidden,     \* #form-error is hidden
    errorText,       \* text of #form-error-text
    loading,         \* the submit button has the class 'loading'
    disabled,        \* the submit button is disabled
    ariaBusy,        \* aria-busy of the submit button ("" when absent)
    inflight,        \* number of submission promises not settled yet
    focused,         \* the form field the submit handler focused last ("none")
    formClearTimers, \* a 3000 ms timer that empties the live region is pending
    formDisplay,     \* app.js: form.style.display
    appTimers,       \* app.js: what the pending 5000 ms timers do
    lastEvent        \* app.js: the analytics event sent last

vars == <<CONFIG, rect, canvasAttached, particles, lines, animationFrame, pending,
          isVisible, lastFrameTime, motionScale, hidden, resizeTimeout, checkMotion,
          now, motionEnabled, cssValue, lastOp, wasRunning,
          container, ctxOk, motionUtils, registered, threw,
          timers, lastResize, resizes, bursts, reinits,
          storage, prefersReducedMotion, motionToggleBtn, liveRegion, liveText, clearTimers,
          counterScript, target, hasCounted, observing, running, textContent, started,
          ariaExpanded, menuOpen, overflow, trapAttached, menuItems, firstFocusable,
          lastFocusable, activeElement, focusTimers,
          formScript, values, fieldError, successHidden, errorHidden, errorText, loading,
          disabled, ariaBusy, inflight, focused, formClearTimers, formDisplay, appTimers,
          lastEvent>>

\* the page around the script and what loading the script leaves behind
loadVars == <<container, ctxOk, motionUtils, registered, threw>>

\* the timing of the resize debounce, followed where the clock of the timers matters
debounceVars == <<timers, lastResize, resizes, bursts, reinits>>

\* the rest of motion.js: stored preference, system preference, button, announcements
motionVars == <<storage, prefersReducedMotion, motionToggleBtn, liveRegion, liveText,
                clearTimers>>

\* the stat counter of main.js and app.js
counterVars == <<counterScript, target, hasCounted, observing, running, textContent,
                 started>>

\* the mobile navigation of main.js
menuVars == <<ariaExpanded, menuOpen, overflow, trapAttached, menuItems, firstFocusable,
              lastFocusable, activeElement, focusTimers>>

\* the donation form of form-validation.js and app.js
formVars == <<formScript, values, fieldError, successHidden, errorHidden, errorText,
              loading, disabled, ariaBusy, inflight, focused, formClearTimers,
              formDisplay, appTimers, lastEvent>>

\* no resize has happened
DebounceIdle ==
    /\ timers = {}
    /\ lastResize = 0
    /\ resizes = 0
    /\ bursts = 0
    /\ reinits = 0

\* a page with the toggle button and without the live region, on which the user has
\* chosen motion before
MotionIdle ==
    /\ storage = "true"
    /\ prefersReducedMotion = FALSE
    /\ motionToggleBtn = TRUE
    /\ liveRegion = FALSE
    /\ liveText = ""
    /\ clearTimers = 0

\* a page without stat counters
CounterIdle ==
    /\ counterScript = "main"
    /\ target = 0
    /\ hasCounted = FALSE
    /\ observing = FALSE
    /\ running = <<>>
    /\ textContent = 0
    /\ started = 0

\* a page whose mobile menu is closed and has no focusable element
MenuIdle ==
    /\ ariaExpanded = "false"
    /\ menuOpen = FALSE
    /\ overflow = ""
    /\ trapAttached = FALSE
    /\ menuItems = 0
    /\ firstFocusable = "undefined"
    /\ lastFocusable = "undefined"
    /\ activeElement = "body"
    /\ focusTimers = 0

\* a page without the donation form
FormIdle ==
    /\ formScript = "form-validation"
    /\ values = <<>>
    /\ fieldError = {}
    /\ successHidden = TRUE
    /\ errorHidden = TRUE
    /\ errorText = ""
    /\ loading = FALSE
    /\ disabled = FALSE
    /\ ariaBusy = ""
    /\ inflight = 0
    /\ focused = "none"
    /\ formClearTimers = FALSE
    /\ formDisplay = ""
    /\ appTimers = {}
    /\ lastEvent = ""

----------------------------------------------------------------------------
(* Bounds of the model *)

\* last instant of the frame clock the model follows
MaxTime == 7
\* gap before a frame callback that follows a stall, in time units
MaxElapsed == 5
\* Date.now() - performance.now(): the wall clock runs ahead of the frame clock
TimeOrigin == 100000
\* particles in the connection-pass harness
MaxParticles == 3
\* largest maxConnections in the connection-pass harness
MaxCap == 3
\* announcements whose 1000 ms timers are pending at once
MaxClearTimers == 2
\* last instant of the clock of the resize harness
MaxClock == 70
\* resize events the resize harness follows
MaxResizes == 4
\* records one delivery of the intersection observer hands to its callback
MaxEntries == 2

----------------------------------------------------------------------------
(* Number representation and constants of the source *)

Scale == 10
FrameUnits == 2
Null == 0
AreaPerParticle == 15000
DeltaCap == 2
\* the debounce delay of 250 ms, in time units
ResizeDelay == 30
\* duration / 16: the steps of a counter animation
CounterSteps == 125

Min(a, b) == IF a < b THEN a ELSE b
Max(a, b) == IF a > b THEN a ELSE b

RECURSIVE ISqrtBetween(_, _, _)
ISqrtBetween(n, lo, hi) ==
    IF hi - lo <= 1 THEN lo
    ELSE LET mid == (lo + hi) \div 2
         IN  IF mid * mid <= n THEN ISqrtBetween(n, mid, hi) ELSE ISqrtBetween(n, lo, mid)
\* Math.sqrt, rounded down to the model's length unit (roots up to 46340, whose
\* square still fits the checker's integers)
ISqrt(n) == ISqrtBetween(n, 0, Min(n, 46340) + 1)

DefaultConfig ==
    [particleCount |-> 50, maxParticleSize |-> 3, minParticleSize |-> 1,
     maxSpeed |-> <<5, 10>>, minSpeed |-> <<1, 10>>,
     connectionDistance |-> 120, maxConnections |-> 3,
     particleColor |-> [r |-> 22, g |-> 163, b |-> 74, a |-> <<6, 10>>],
     lineColor |-> [r |-> 22, g |-> 163, b |-> 74, a |-> <<2, 10>>],
     fps |-> 60, pauseWhenHidden |-> TRUE]

\* variant that rebuilds the configuration from the defaults, used to test the merge
AssignReplace(cfg, newConfig) ==
    [f \in (DOMAIN DefaultConfig) \cup (DOMAIN newConfig) |->
        IF f \in DOMAIN newConfig THEN newConfig[f] ELSE DefaultConfig[f]]

\* Object.assign(CONFIG, newConfig)
AssignConfig(cfg, newConfig) ==
    [f \in (DOMAIN cfg) \cup (DOMAIN newConfig) |->
        IF f \in DOMAIN newConfig THEN newConfig[f] ELSE cfg[f]]

----------------------------------------------------------------------------
(* motion.js *)

\* setMotionScale: the custom property is '1' or '0'
SetMotionScale(enabled) == IF enabled THEN "1" ELSE "0"

\* getMotionScale: parseFloat(value) || 0
GetMotionScale(value) == IF value = "1" THEN 1 ELSE 0

\* localStorage.setItem(STORAGE_KEY, enabled): the item is the string of the boolean
StoredString(enabled) == IF enabled THEN "true" ELSE "false"

\* motionEnabled at load: the stored preference, or else the system preference inverted
InitialMotion(stored, prefersReduced) ==
    IF stored = "null" THEN ~prefersReduced ELSE stored = "true"

\* the text announced after a click on the toggle
Announcement(enabled) == IF enabled THEN "Animations enabled" ELSE "Animations disabled"

----------------------------------------------------------------------------
(* Particle *)

\* outcomes of Math.random() * canvasWidth the model follows
RandX(w) == {w - 1}
RandY(h) == {h \div 2}
\* outcomes of (cos(angle) * speed, sin(angle) * speed), speed in [minSpeed, maxSpeed]
RandVelocity == {<<2, 0>>, <<-4, -2>>}
RandSize == {20}
RandOpacity == {<<5, 10>>}

\* new Particle(canvasWidth, canvasHeight): the set of particles reset() can produce
Reset(canvasWidth, canvasHeight) ==
    {[x |-> px, y |-> py, size |-> s, speedX |-> v[1], speedY |-> v[2],
      opacity |-> o, connections |-> 0,
      canvasWidth |-> canvasWidth, canvasHeight |-> canvasHeight] :
        px \in RandX(canvasWidth), py \in RandY(canvasHeight),
        v \in RandVelocity, s \in RandSize, o \in RandOpacity}

\* variants of the wrap and of the move, used to test the position properties
WrapLowKeep(c, dim) == c
AdvanceUnscaled(c, speed, scale, dtN) == c + (speed * dtN) \div FrameUnits

\* variant that wraps by the overshoot, used to test the wrap rule
WrapHighProportional(c, dim) == IF c > dim THEN c - dim ELSE c

\* one coordinate of update: move, then wrap around the edges
WrapHigh(c, dim) == IF c > dim THEN 0 ELSE c
WrapLow(c, dim) == IF c < 0 THEN dim ELSE c
Advance(c, speed, scale, dtN) == c + (speed * scale * dtN) \div FrameUnits

\* variant of update that reverses the velocity of a particle it wraps, used to test
\* what a frame may change
UpdateBounces(p, dtN, scale) ==
    LET q == [p EXCEPT !.x = WrapLow(WrapHigh(Advance(p.x, p.speedX, scale, dtN),
                                              p.canvasWidth), p.canvasWidth),
                       !.y = WrapLow(WrapHigh(Advance(p.y, p.speedY, scale, dtN),
                                              p.canvasHeight), p.canvasHeight),
                       !.connections = 0]
    IN  IF q.x = Advance(p.x, p.speedX, scale, dtN) THEN q ELSE [q EXCEPT !.speedX = -@]

\* variant of update that keeps the connection count, used to test the reset
UpdateKeepsConnections(p, dtN, scale) ==
    [p EXCEPT !.x = WrapLow(WrapHigh(Advance(p.x, p.speedX, scale, dtN), p.canvasWidth),
                            p.canvasWidth),
              !.y = WrapLow(WrapHigh(Advance(p.y, p.speedY, scale, dtN), p.canvasHeight),
                            p.canvasHeight)]

\* Particle.update(deltaTime), deltaTime = dtN / FrameUnits
Update(p, dtN, scale) ==
    [p EXCEPT !.x = WrapLow(WrapHigh(Advance(p.x, p.speedX, scale, dtN), p.canvasWidth),
                            p.canvasWidth),
              !.y = WrapLow(WrapHigh(Advance(p.y, p.speedY, scale, dtN), p.canvasHeight),
                            p.canvasHeight),
              !.connections = 0]

----------------------------------------------------------------------------
(* init *)

\* resizeCanvas(): the measured dimensions, in length units
Dimensions(r) == [width |-> r.width * Scale, height |-> r.height * Scale]

\* variant without the cap, used to test the density property
ParticleCountUncapped(r, cfg) == (r.width * r.height) \div AreaPerParticle

\* Math.min(Math.floor(width * height / 15000), CONFIG.particleCount)
ParticleCount(r, cfg) == Min((r.width * r.height) \div AreaPerParticle, cfg.particleCount)

\* the lists init() can leave in particles
InitParticles(r, cfg) ==
    LET n == Max(ParticleCount(r, cfg), 0)
        d == Dimensions(r)
    IN  [1..n -> Reset(d.width, d.height)]

----------------------------------------------------------------------------
(* drawConnections *)

\* getDistance
GetDistance(x1, y1, x2, y2) ==
    LET dx == x2 - x1
        dy == y2 - y1
    IN  ISqrt(dx * dx + dy * dy)

\* the budget checks of the two loops
OuterSkip(p1, cfg) == p1.connections >= cfg.maxConnections
InnerSkip(p2, cfg) == p2.connections >= cfg.maxConnections

\* variant that takes the cutoff distance itself, used to test the edge rule
NearInclusive(distance, cfg) == distance <= cfg.connectionDistance * Scale

\* distance < maxDistance
Near(distance, cfg) == distance < cfg.connectionDistance * Scale

\* variant without the fade, used to test the two-particle scenario
LineOpacityNoFade(distance, cfg) == cfg.lineColor.a

\* color.a * (1 - distance / maxDistance)
LineOpacity(distance, cfg) ==
    <<cfg.lineColor.a[1] * (cfg.connectionDistance * Scale - distance),
      cfg.lineColor.a[2] * (cfg.connectionDistance * Scale)>>

\* variant of the inner loop body that looks at the outer particle's count again, used
\* to test the budget rule
ConnectRechecked(st, i, j, cfg) ==
    LET p1 == st.particles[i]
        p2 == st.particles[j]
        distance == GetDistance(p1.x, p1.y, p2.x, p2.y)
    IN  IF InnerSkip(p2, cfg) \/ OuterSkip(p1, cfg) THEN st
        ELSE IF Near(distance, cfg)
             THEN [particles |->
                      [st.particles EXCEPT ![i].connections = @ + 1,
                                           ![j].connections = @ + 1],
                   lines |-> Append(st.lines,
                                    [from |-> i, to |-> j,
                                     opacity |-> LineOpacity(distance, cfg)])]
             ELSE st

\* the body of the inner loop for the pair (i, j)
Connect(st, i, j, cfg) ==
    LET p1 == st.particles[i]
        p2 == st.particles[j]
        distance == GetDistance(p1.x, p1.y, p2.x, p2.y)
    IN  IF InnerSkip(p2, cfg) THEN st
        ELSE IF Near(distance, cfg)
             THEN [particles |->
                      [st.particles EXCEPT ![i].connections = @ + 1,
                                           ![j].connections = @ + 1],
                   lines |-> Append(st.lines,
                                    [from |-> i, to |-> j,
                                     opacity |-> LineOpacity(distance, cfg)])]
             ELSE st

RECURSIVE InnerLoop(_, _, _, _)
InnerLoop(st, i, j, cfg) ==
    IF j > Len(st.particles) THEN st
    ELSE InnerLoop(Connect(st, i, j, cfg), i, j + 1, cfg)

RECURSIVE OuterLoop(_, _, _)
OuterLoop(st, i, cfg) ==
    IF i > Len(st.particles) THEN st
    ELSE IF OuterSkip(st.particles[i], cfg) THEN OuterLoop(st, i + 1, cfg)
         ELSE OuterLoop(InnerLoop(st, i, i + 1, cfg), i + 1, cfg)

\* drawConnections(): the particles with their counts, and the lines added to the canvas
DrawConnections(ps, drawn, cfg) == OuterLoop([particles |-> ps, lines |-> drawn], 1, cfg)

----------------------------------------------------------------------------
(* The mutable state of the script as one record, so that handlers compose *)

Cur ==
    [particles |-> particles, lines |-> lines, animationFrame |-> animationFrame,
     pending |-> pending, isVisible |-> isVisible, lastFrameTime |-> lastFrameTime,
     canvasAttached |-> canvasAttached]

Becomes(s) ==
    /\ particles' = s.particles
    /\ lines' = s.lines
    /\ animationFrame' = s.animationFrame
    /\ pending' = s.pending
    /\ isVisible' = s.isVisible
    /\ lastFrameTime' = s.lastFrameTime
    /\ canvasAttached' = s.canvasAttached

\* Date.now() when the frame clock shows t
DateNow(t) == t + TimeOrigin

\* requestAnimationFrame: a handle no scheduled callback has
RequestAnimationFrame(scheduled) ==
    CHOOSE id \in 1..(Cardinality(scheduled) + 1) :
        id \notin scheduled /\ \A k \in 1..(id - 1) : k \in scheduled

\* variant without the cap, used to test the delta-time cap
DeltaTimeUncapped(currentTime, last) == currentTime - last

\* Math.min((currentTime - lastFrameTime) / 16.67, 2), as a numerator over FrameUnits
DeltaTime(currentTime, last) == Min(currentTime - last, DeltaCap * FrameUnits)

\* variant of init() that does not empty the list first, used to test reinit
InitFieldAppend(s, r, cfg) ==
    {[s EXCEPT !.particles = s.particles \o ps, !.lines = <<>>] : ps \in InitParticles(r, cfg)}

\* init(): resizeCanvas() clears the canvas, the list is rebuilt
InitField(s, r, cfg) ==
    {[s EXCEPT !.particles = ps, !.lines = <<>>] : ps \in InitParticles(r, cfg)}

\* animate(currentTime), called by the browser for a scheduled callback
Animate(s, currentTime, cfg, scale) ==
    IF ~s.isVisible THEN s
    ELSE LET dtN == DeltaTime(currentTime, s.lastFrameTime)
             moved == [k \in DOMAIN s.particles |-> Update(s.particles[k], dtN, scale)]
             drawn == DrawConnections(moved, <<>>, cfg)
             id == RequestAnimationFrame(s.pending)
         IN  [s EXCEPT !.lastFrameTime = currentTime,
                       !.particles = drawn.particles,
                       !.lines = drawn.lines,
                       !.animationFrame = id,
                       !.pending = @ \cup {id}]

\* variant of start() without its guard, used to test idempotence
StartAlways(s, t) ==
    LET id == RequestAnimationFrame(s.pending)
    IN  [s EXCEPT !.isVisible = TRUE,
                  !.lastFrameTime = DateNow(t),
                  !.animationFrame = id,
                  !.pending = @ \cup {id}]

\* start()
Start(s, t) ==
    IF s.animationFrame # Null THEN s
    ELSE LET id == RequestAnimationFrame(s.pending)
         IN  [s EXCEPT !.isVisible = TRUE,
                       !.lastFrameTime = DateNow(t),
                       !.animationFrame = id,
                       !.pending = @ \cup {id}]

\* variant of stop() that forgets cancelAnimationFrame, used to test cancellation
StopNoCancel(s) == [s EXCEPT !.animationFrame = Null, !.isVisible = FALSE]

\* variant of stop() that flips isVisible instead of clearing it, used to test idempotence
StopFlips(s) ==
    LET c == IF s.animationFrame # Null
             THEN [s EXCEPT !.pending = @ \ {s.animationFrame}, !.animationFrame = Null]
             ELSE s
    IN  [c EXCEPT !.isVisible = ~s.isVisible]

\* stop()
Stop(s) ==
    LET c == IF s.animationFrame # Null
             THEN [s EXCEPT !.pending = @ \ {s.animationFrame}, !.animationFrame = Null]
             ELSE s
    IN  [c EXCEPT !.isVisible = FALSE]

\* variant of destroy() that keeps the particle list, used to test destroy
DestroyKeepsParticles(s) == [Stop(s) EXCEPT !.canvasAttached = FALSE]

\* destroy()
Destroy(s) ==
    [Stop(s) EXCEPT !.canvasAttached = FALSE, !.particles = <<>>]

\* stop(); init(); start();
Reinit(s, r, cfg, t) == {Start(i, t) : i \in InitField(Stop(s), r, cfg)}

----------------------------------------------------------------------------
(* Inputs of the page model *)

\* container sizes in px: 0, 1 and 2 particles at 15000 px^2 each
Rects == {[width |-> 100, height |-> 100],
          [width |-> 150, height |-> 100],
          [width |-> 200, height |-> 150]}

\* arguments of particlesAPI.setConfig
NewConfigs == {[particleCount |-> 1], [maxConnections |-> 1]}

----------------------------------------------------------------------------
(* The page after both scripts have run: init(); start(); listeners registered *)

Init ==
    /\ lastOp = "load"
    /\ wasRunning = FALSE
    /\ container = TRUE
    /\ ctxOk = TRUE
    /\ motionUtils = TRUE
    /\ registered = {"resize", "visibilitychange", "beforeunload", "particlesAPI"}
    /\ threw = FALSE
    /\ DebounceIdle
    /\ MotionIdle
    /\ CounterIdle
    /\ MenuIdle
    /\ FormIdle
    /\ CONFIG = DefaultConfig
    /\ rect \in Rects
    /\ now = 0
    /\ motionEnabled = TRUE
    /\ cssValue = SetMotionScale(TRUE)
    /\ motionScale = GetMotionScale(cssValue)
    /\ hidden = FALSE
    /\ resizeTimeout = FALSE
    /\ checkMotion = TRUE
    /\ \E s \in InitField([particles |-> <<>>, lines |-> <<>>, animationFrame |-> Null,
                           pending |-> {}, isVisible |-> TRUE,
                           lastFrameTime |-> DateNow(0), canvasAttached |-> TRUE],
                          rect, CONFIG) :
          LET r == Start(s, 0)
          IN  /\ particles = r.particles
              /\ lines = r.lines
              /\ animationFrame = r.animationFrame
              /\ pending = r.pending
              /\ isVisible = r.isVisible
              /\ lastFrameTime = r.lastFrameTime
              /\ canvasAttached = r.canvasAttached

\* the browser runs a scheduled frame callback, one 60 fps frame or a stall after the
\* last one
FrameCallback ==
    /\ lastOp # "unload"
    /\ lastOp' = "frame"
    /\ wasRunning' = (animationFrame # Null)
    /\ UNCHANGED <<loadVars, debounceVars, motionVars, counterVars, menuVars, formVars>>
    /\ \E id \in pending, elapsed \in {FrameUnits, MaxElapsed} :
          /\ now + elapsed <= MaxTime
          /\ now' = now + elapsed
          /\ Becomes(Animate([Cur EXCEPT !.pending = @ \ {id}], now + elapsed,
                             CONFIG, motionScale))
    /\ UNCHANGED <<CONFIG, rect, motionScale, hidden, resizeTimeout, checkMotion,
                   motionEnabled, cssValue>>

ApiStart ==
    /\ lastOp # "unload"
    /\ lastOp' = "start"
    /\ wasRunning' = (animationFrame # Null)
    /\ UNCHANGED <<loadVars, debounceVars, motionVars, counterVars, menuVars, formVars>>
    /\ Becomes(Start(Cur, now))
    /\ UNCHANGED <<CONFIG, rect, motionScale, hidden, resizeTimeout, checkMotion, now,
                   motionEnabled, cssValue>>

ApiStop ==
    /\ lastOp # "unload"
    /\ lastOp' = "stop"
    /\ wasRunning' = (animationFrame # Null)
    /\ UNCHANGED <<loadVars, debounceVars, motionVars, counterVars, menuVars, formVars>>
    /\ Becomes(Stop(Cur))
    /\ UNCHANGED <<CONFIG, rect, motionScale, hidden, resizeTimeout, checkMotion, now,
                   motionEnabled, cssValue>>

ApiDestroy ==
    /\ lastOp # "unload"
    /\ lastOp' = "destroy"
    /\ wasRunning' = (animationFrame # Null)
    /\ UNCHANGED <<loadVars, debounceVars, motionVars, counterVars, menuVars, formVars>>
    /\ Becomes(Destroy(Cur))
    /\ UNCHANGED <<CONFIG, rect, motionScale, hidden, resizeTimeout, checkMotion, now,
                   motionEnabled, cssValue>>

ApiReinit ==
    /\ lastOp # "unload"
    /\ lastOp' = "reinit"
    /\ wasRunning' = (animationFrame # Null)
    /\ UNCHANGED <<loadVars, debounceVars, motionVars, counterVars, menuVars, formVars>>
    /\ \E s \in Reinit(Cur, rect, CONFIG, now) : Becomes(s)
    /\ UNCHANGED <<CONFIG, rect, motionScale, hidden, resizeTimeout, checkMotion, now,
                   motionEnabled, cssValue>>

\* particlesAPI.setConfig(newConfig) for one of the given arguments
SetConfigWith(configs) ==
    /\ lastOp # "unload"
    /\ lastOp' = "setConfig"
    /\ wasRunning' = (animationFrame # Null)
    /\ UNCHANGED <<loadVars, debounceVars, motionVars, counterVars, menuVars, formVars>>
    /\ \E newConfig \in configs :
          /\ CONFIG' = AssignConfig(CONFIG, newConfig)
          /\ \E s \in Reinit(Cur, rect, CONFIG', now) : Becomes(s)
    /\ UNCHANGED <<rect, motionScale, hidden, resizeTimeout, checkMotion, now,
                   motionEnabled, cssValue>>

ApiSetConfig == SetConfigWith(NewConfigs)

\* the window is resized: the container changes size, the debounce timer is re-armed
WindowResize ==
    /\ lastOp # "unload"
    /\ lastOp' = "resize"
    /\ wasRunning' = (animationFrame # Null)
    /\ UNCHANGED <<loadVars, debounceVars, motionVars, counterVars, menuVars, formVars>>
    /\ \E r \in Rects : rect' = r
    /\ resizeTimeout' = TRUE
    /\ UNCHANGED <<CONFIG, canvasAttached, particles, lines, animationFrame, pending,
                   isVisible, lastFrameTime, motionScale, hidden, checkMotion, now,
                   motionEnabled, cssValue>>

\* the debounce timer fires
ResizeTimer ==
    /\ lastOp # "unload"
    /\ lastOp' = "resizeTimer"
    /\ wasRunning' = (animationFrame # Null)
    /\ UNCHANGED <<loadVars, debounceVars, motionVars, counterVars, menuVars, formVars>>
    /\ resizeTimeout
    /\ resizeTimeout' = FALSE
    /\ \E s \in Reinit(Cur, rect, CONFIG, now) : Becomes(s)
    /\ UNCHANGED <<CONFIG, rect, motionScale, hidden, checkMotion, now,
                   motionEnabled, cssValue>>

\* variant of the visibility handler with the test inverted, used to test the wiring
VisibilityInverted ==
    /\ lastOp # "unload"
    /\ lastOp' = "visibility"
    /\ wasRunning' = (animationFrame # Null)
    /\ UNCHANGED <<loadVars, debounceVars, motionVars, counterVars, menuVars, formVars>>
    /\ hidden' = ~hidden
    /\ Becomes(IF hidden' THEN Start(Cur, now) ELSE Stop(Cur))
    /\ UNCHANGED <<CONFIG, rect, motionScale, resizeTimeout, checkMotion, now,
                   motionEnabled, cssValue>>

\* visibilitychange, registered at load because CONFIG.pauseWhenHidden was true
VisibilityChange ==
    /\ lastOp # "unload"
    /\ lastOp' = "visibility"
    /\ wasRunning' = (animationFrame # Null)
    /\ UNCHANGED <<loadVars, debounceVars, motionVars, counterVars, menuVars, formVars>>
    /\ hidden' = ~hidden
    /\ Becomes(IF hidden' THEN Stop(Cur) ELSE Start(Cur, now))
    /\ UNCHANGED <<CONFIG, rect, motionScale, resizeTimeout, checkMotion, now,
                   motionEnabled, cssValue>>

\* variant of the poll without the isVisible test, used to test the zero-motion rule
MotionPollUngated ==
    /\ lastOp # "unload"
    /\ lastOp' = "poll"
    /\ wasRunning' = (animationFrame # Null)
    /\ UNCHANGED <<loadVars, debounceVars, motionVars, counterVars, menuVars, formVars>>
    /\ checkMotion
    /\ IF GetMotionScale(cssValue) = 0
       THEN Becomes(Destroy(Cur)) /\ checkMotion' = FALSE
       ELSE Becomes(Cur) /\ checkMotion' = checkMotion
    /\ UNCHANGED <<CONFIG, rect, motionScale, hidden, resizeTimeout, now,
                   motionEnabled, cssValue>>

\* the 1000 ms interval callback
MotionPoll ==
    /\ lastOp # "unload"
    /\ lastOp' = "poll"
    /\ wasRunning' = (animationFrame # Null)
    /\ UNCHANGED <<loadVars, debounceVars, motionVars, counterVars, menuVars, formVars>>
    /\ checkMotion
    /\ IF GetMotionScale(cssValue) = 0 /\ isVisible
       THEN Becomes(Destroy(Cur)) /\ checkMotion' = FALSE
       ELSE Becomes(Cur) /\ checkMotion' = checkMotion
    /\ UNCHANGED <<CONFIG, rect, motionScale, hidden, resizeTimeout, now,
                   motionEnabled, cssValue>>

\* motion.js: click on the motion toggle button
MotionToggle ==
    /\ lastOp # "unload"
    /\ motionUtils
    /\ motionToggleBtn
    /\ liveRegion => clearTimers < MaxClearTimers
    /\ lastOp' = "toggle"
    /\ wasRunning' = (animationFrame # Null)
    /\ UNCHANGED <<loadVars, debounceVars, counterVars, menuVars, formVars>>
    /\ motionEnabled' = ~motionEnabled
    /\ storage' = StoredString(motionEnabled')
    /\ cssValue' = SetMotionScale(motionEnabled')
    /\ IF liveRegion
       THEN liveText' = Announcement(motionEnabled') /\ clearTimers' = clearTimers + 1
       ELSE UNCHANGED <<liveText, clearTimers>>
    /\ UNCHANGED <<prefersReducedMotion, motionToggleBtn, liveRegion>>
    /\ UNCHANGED <<CONFIG, rect, canvasAttached, particles, lines, animationFrame, pending,
                   isVisible, lastFrameTime, motionScale, hidden, resizeTimeout,
                   checkMotion, now>>

\* beforeunload: destroy(), and the page is gone
BeforeUnload ==
    /\ lastOp # "unload"
    /\ lastOp' = "unload"
    /\ wasRunning' = (animationFrame # Null)
    /\ UNCHANGED <<loadVars, debounceVars, motionVars, counterVars, menuVars, formVars>>
    /\ Becomes(Destroy(Cur))
    /\ UNCHANGED <<CONFIG, rect, motionScale, hidden, resizeTimeout, checkMotion, now,
                   motionEnabled, cssValue>>

Next ==
    \/ FrameCallback
    \/ ApiStart
    \/ ApiStop
    \/ ApiDestroy
    \/ ApiReinit
    \/ ApiSetConfig
    \/ WindowResize
    \/ ResizeTimer
    \/ VisibilityChange
    \/ MotionPoll
    \/ MotionToggle
    \/ BeforeUnload

Spec == Init /\ [][Next]_vars

\* the page left to the browser: frames, resize, visibility, poll, toggle and unload,
\* and no call of particlesAPI
NextEvents ==
    \/ FrameCallback
    \/ WindowResize
    \/ ResizeTimer
    \/ VisibilityChange
    \/ MotionPoll
    \/ MotionToggle
    \/ BeforeUnload

SpecEvents == Init /\ [][NextEvents]_vars

\* setConfig calls that set the pause-when-hidden flag
FlagConfigs == {[pauseWhenHidden |-> FALSE], [pauseWhenHidden |-> TRUE]}

ApiSetFlag == SetConfigWith(FlagConfigs)

\* the page with its flag set through the API, visibility changes and frames
NextGate ==
    \/ ApiSetFlag
    \/ VisibilityChange
    \/ FrameCallback

SpecGate == Init /\ [][NextGate]_vars

\* the page with the interval timer of the poll firing again and again while it is set
SpecFair == Spec /\ WF_vars(MotionPoll)

----------------------------------------------------------------------------
(* The resize debounce against the clock: the page of Spec with the instants of *)
(* the resize events and of the debounce timer followed                        *)

\* the clock moves a third of the delay at a time, and never past a timer that is due
ClockStep == ResizeDelay \div 3

\* the timer the handle resizeTimeout names: the one set last
Newest(ts) == {due \in ts : \A other \in ts : other <= due}

\* variant of the listener without clearTimeout, used to test the debounce
ResizeListenerNoClear(ts, t) == ts \cup {t + ResizeDelay}

\* clearTimeout(resizeTimeout); resizeTimeout = setTimeout(..., 250)
ResizeListener(ts, t) == (ts \ Newest(ts)) \cup {t + ResizeDelay}

\* a resize event; a timer that is due runs before an event of the same instant
ResizeEvent ==
    /\ lastOp # "unload"
    /\ resizes < MaxResizes
    /\ \A due \in timers : now < due
    /\ lastOp' = "resize"
    /\ wasRunning' = (animationFrame # Null)
    /\ \E r \in Rects : rect' = r
    /\ timers' = ResizeListener(timers, now)
    /\ resizeTimeout' = TRUE
    /\ lastResize' = now
    /\ resizes' = resizes + 1
    /\ bursts' = IF resizes = 0 \/ now - lastResize >= ResizeDelay THEN bursts + 1 ELSE bursts
    /\ UNCHANGED reinits
    /\ UNCHANGED <<loadVars, motionVars, counterVars, menuVars, formVars>>
    /\ UNCHANGED <<CONFIG, canvasAttached, particles, lines, animationFrame, pending,
                   isVisible, lastFrameTime, motionScale, hidden, checkMotion, now,
                   motionEnabled, cssValue>>

\* a debounce timer that is due fires: stop(); init(); start()
DebounceFire ==
    /\ lastOp # "unload"
    /\ lastOp' = "resizeTimer"
    /\ wasRunning' = (animationFrame # Null)
    /\ \E due \in timers :
          /\ due <= now
          /\ timers' = timers \ {due}
    /\ resizeTimeout' = (timers' # {})
    /\ reinits' = reinits + 1
    /\ \E s \in Reinit(Cur, rect, CONFIG, now) : Becomes(s)
    /\ UNCHANGED <<lastResize, resizes, bursts>>
    /\ UNCHANGED <<loadVars, motionVars, counterVars, menuVars, formVars>>
    /\ UNCHANGED <<CONFIG, rect, motionScale, hidden, checkMotion, now,
                   motionEnabled, cssValue>>

\* time passes, up to the next timer that is due
ClockTick ==
    /\ lastOp # "unload"
    /\ now + ClockStep <= MaxClock
    /\ \A due \in timers : now < due
    /\ lastOp' = "clock"
    /\ wasRunning' = (animationFrame # Null)
    /\ \E t \in (now + 1)..(now + ClockStep) :
          /\ \A due \in timers : t <= due
          /\ t = now + ClockStep \/ t \in timers
          /\ now' = t
    /\ UNCHANGED <<loadVars, debounceVars, motionVars, counterVars, menuVars, formVars>>
    /\ UNCHANGED <<CONFIG, rect, canvasAttached, particles, lines, animationFrame, pending,
                   isVisible, lastFrameTime, motionScale, hidden, resizeTimeout,
                   checkMotion, motionEnabled, cssValue>>

NextResize ==
    \/ ResizeEvent
    \/ DebounceFire
    \/ ClockTick

SpecResize == Init /\ [][NextResize]_vars

----------------------------------------------------------------------------
(* Loading the script on any page: lines 43-329 run once, top to bottom *)

\* what the script registers when it runs to its end: the resize listener, the
\* visibilitychange listener if CONFIG.pauseWhenHidden, the beforeunload listener
\* and window.particlesAPI
Registrations(cfg) ==
    {"resize", "beforeunload", "particlesAPI"}
        \cup (IF cfg.pauseWhenHidden THEN {"visibilitychange"} ELSE {})

\* the module state before the script has run
Blank ==
    [particles |-> <<>>, lines |-> <<>>, animationFrame |-> Null, pending |-> {},
     isVisible |-> FALSE, lastFrameTime |-> 0, canvasAttached |-> FALSE]

\* a script that stopped before registering anything
Bailed(s, scale, exception) ==
    [s |-> s, motionScale |-> scale, registered |-> {}, checkMotion |-> FALSE,
     threw |-> exception]

\* the script without its container check: container.appendChild raises
LoadNoContainerCheck(hasContainer, hasCtx, hasUtils, value, r, cfg, t) ==
    LET scale == IF hasUtils THEN GetMotionScale(value) ELSE 1
    IN  IF scale = 0 THEN {Bailed(Blank, scale, FALSE)}
        ELSE IF ~hasContainer THEN {Bailed(Blank, scale, TRUE)}
        ELSE {Bailed([Blank EXCEPT !.canvasAttached = TRUE], scale, ~hasCtx)}

\* the script without its motion check: it goes on with a scale of 0
LoadNoMotionCheck(hasContainer, hasCtx, hasUtils, value, r, cfg, t) ==
    LET scale == IF hasUtils THEN GetMotionScale(value) ELSE 1
        declared == [Blank EXCEPT !.canvasAttached = TRUE, !.isVisible = TRUE,
                                  !.lastFrameTime = DateNow(t)]
    IN  IF ~hasContainer THEN {Bailed(Blank, 0, FALSE)}
        ELSE IF ~hasCtx THEN {Bailed(declared, scale, TRUE)}
        ELSE {[s |-> Start(f, t), motionScale |-> scale,
               registered |-> Registrations(cfg), checkMotion |-> hasUtils,
               threw |-> FALSE] : f \in InitField(declared, r, cfg)}

\* the outcomes of running the script:
\*   no container                 -> return at line 46
\*   motion scale 0               -> return at line 53
\*   canvas appended (line 65), state declared (lines 72-76)
\*   init() -> resizeCanvas(): ctx.scale on a null ctx raises at line 94
\*   otherwise init(); start(); listeners, poll and API registered
Load(hasContainer, hasCtx, hasUtils, value, r, cfg, t) ==
    LET scale == IF hasUtils THEN GetMotionScale(value) ELSE 1
        declared == [Blank EXCEPT !.canvasAttached = TRUE, !.isVisible = TRUE,
                                  !.lastFrameTime = DateNow(t)]
    IN  IF ~hasContainer THEN {Bailed(Blank, 0, FALSE)}
        ELSE IF scale = 0 THEN {Bailed(Blank, scale, FALSE)}
        ELSE IF ~hasCtx THEN {Bailed(declared, scale, TRUE)}
        ELSE {[s |-> Start(f, t), motionScale |-> scale,
               registered |-> Registrations(cfg), checkMotion |-> hasUtils,
               threw |-> FALSE] : f \in InitField(declared, r, cfg)}

\* any page before the script runs
InitLoad ==
    /\ lastOp = "none"
    /\ wasRunning = FALSE
    /\ container \in BOOLEAN
    /\ ctxOk \in BOOLEAN
    /\ motionUtils \in BOOLEAN
    /\ registered = {}
    /\ threw = FALSE
    /\ DebounceIdle
    /\ MotionIdle
    /\ CounterIdle
    /\ MenuIdle
    /\ FormIdle
    /\ CONFIG = DefaultConfig
    /\ rect \in Rects
    /\ now = 0
    /\ motionEnabled \in BOOLEAN
    /\ cssValue = SetMotionScale(motionEnabled)
    /\ motionScale = 0
    /\ hidden \in BOOLEAN
    /\ resizeTimeout = FALSE
    /\ checkMotion = FALSE
    /\ particles = Blank.particles
    /\ lines = Blank.lines
    /\ animationFrame = Blank.animationFrame
    /\ pending = Blank.pending
    /\ isVisible = Blank.isVisible
    /\ lastFrameTime = Blank.lastFrameTime
    /\ canvasAttached = Blank.canvasAttached

\* the browser runs the script
LoadScript ==
    /\ lastOp = "none"
    /\ lastOp' = "load"
    /\ wasRunning' = FALSE
    /\ \E o \in Load(container, ctxOk, motionUtils, cssValue, rect, CONFIG, now) :
          /\ Becomes(o.s)
          /\ motionScale' = o.motionScale
          /\ registered' = o.registered
          /\ checkMotion' = o.checkMotion
          /\ threw' = o.threw
    /\ UNCHANGED <<CONFIG, rect, hidden, resizeTimeout, now, motionEnabled, cssValue,
                   container, ctxOk, motionUtils>>
    /\ UNCHANGED <<debounceVars, motionVars, counterVars, menuVars, formVars>>

NextLoad == LoadScript

SpecLoad == InitLoad /\ [][NextLoad]_vars

----------------------------------------------------------------------------
(* motion.js on any page: load, toggle clicks, setMotionEnabled calls, changes *)
(* of the system preference                                                   *)

\* the page before motion.js runs; the particle script is not on it
InitMotion ==
    /\ lastOp = "none"
    /\ wasRunning = FALSE
    /\ CONFIG = DefaultConfig
    /\ rect = [width |-> 200, height |-> 150]
    /\ now = 0
    /\ motionScale = 0
    /\ hidden = FALSE
    /\ resizeTimeout = FALSE
    /\ checkMotion = FALSE
    /\ particles = Blank.particles
    /\ lines = Blank.lines
    /\ animationFrame = Blank.animationFrame
    /\ pending = Blank.pending
    /\ isVisible = Blank.isVisible
    /\ lastFrameTime = Blank.lastFrameTime
    /\ canvasAttached = Blank.canvasAttached
    /\ container = FALSE
    /\ ctxOk = TRUE
    /\ registered = {}
    /\ threw = FALSE
    /\ DebounceIdle
    /\ CounterIdle
    /\ MenuIdle
    /\ FormIdle
    /\ motionUtils = FALSE
    /\ motionEnabled = FALSE
    /\ cssValue = ""
    /\ storage \in {"null", "true", "false"}
    /\ prefersReducedMotion \in BOOLEAN
    /\ motionToggleBtn \in BOOLEAN
    /\ liveRegion \in BOOLEAN
    /\ liveText = ""
    /\ clearTimers = 0

\* what no handler of motion.js touches
MotionFrame ==
    UNCHANGED <<CONFIG, rect, canvasAttached, particles, lines, animationFrame, pending,
                isVisible, lastFrameTime, motionScale, hidden, resizeTimeout, checkMotion,
                now, container, ctxOk, registered, threw, debounceVars, counterVars, menuVars,
                formVars,
                motionToggleBtn, liveRegion>>

\* the script runs: lines 10-24, setMotionScale(motionEnabled), window.motionUtils
MotionLoad ==
    /\ lastOp = "none"
    /\ lastOp' = "motionLoad"
    /\ wasRunning' = (animationFrame # Null)
    /\ motionEnabled' = InitialMotion(storage, prefersReducedMotion)
    /\ cssValue' = SetMotionScale(motionEnabled')
    /\ motionUtils' = TRUE
    /\ UNCHANGED <<storage, prefersReducedMotion, liveText, clearTimers>>
    /\ MotionFrame

\* motionUtils.setMotionEnabled(enabled)
SetMotionEnabled ==
    /\ motionUtils
    /\ lastOp' = "setMotionEnabled"
    /\ wasRunning' = (animationFrame # Null)
    /\ \E enabled \in BOOLEAN :
          /\ motionEnabled' = enabled
          /\ storage' = StoredString(enabled)
          /\ cssValue' = SetMotionScale(enabled)
    /\ UNCHANGED <<motionUtils, prefersReducedMotion, liveText, clearTimers>>
    /\ MotionFrame

\* variant of the media-query handler that follows the system whether or not a choice
\* is stored, used to test the precedence of the stored choice
MediaChangeUngated ==
    /\ motionUtils
    /\ lastOp' = "mediaChange"
    /\ wasRunning' = (animationFrame # Null)
    /\ prefersReducedMotion' = ~prefersReducedMotion
    /\ motionEnabled' = ~prefersReducedMotion'
    /\ cssValue' = SetMotionScale(motionEnabled')
    /\ UNCHANGED <<motionUtils, storage, liveText, clearTimers>>
    /\ MotionFrame

\* variant of the media-query handler that leaves the custom property as it is, used to
\* test the signal
MediaChangeStale ==
    /\ motionUtils
    /\ lastOp' = "mediaChange"
    /\ wasRunning' = (animationFrame # Null)
    /\ prefersReducedMotion' = ~prefersReducedMotion
    /\ IF storage = "null"
       THEN motionEnabled' = ~prefersReducedMotion' /\ cssValue' = cssValue
       ELSE UNCHANGED <<motionEnabled, cssValue>>
    /\ UNCHANGED <<motionUtils, storage, liveText, clearTimers>>
    /\ MotionFrame

\* the system preference changes: the media query's change event
MediaChange ==
    /\ motionUtils
    /\ lastOp' = "mediaChange"
    /\ wasRunning' = (animationFrame # Null)
    /\ prefersReducedMotion' = ~prefersReducedMotion
    /\ IF storage = "null"
       THEN /\ motionEnabled' = ~prefersReducedMotion'
            /\ cssValue' = SetMotionScale(motionEnabled')
       ELSE UNCHANGED <<motionEnabled, cssValue>>
    /\ UNCHANGED <<motionUtils, storage, liveText, clearTimers>>
    /\ MotionFrame

\* a 1000 ms timer of announceToScreenReader fires
AnnounceTimer ==
    /\ clearTimers > 0
    /\ lastOp' = "announceTimer"
    /\ wasRunning' = (animationFrame # Null)
    /\ liveText' = ""
    /\ clearTimers' = clearTimers - 1
    /\ UNCHANGED <<motionUtils, motionEnabled, cssValue, storage, prefersReducedMotion>>
    /\ MotionFrame

NextMotion ==
    \/ MotionLoad
    \/ MotionToggle
    \/ SetMotionEnabled
    \/ MediaChange
    \/ AnnounceTimer

SpecMotion == InitMotion /\ [][NextMotion]_vars

----------------------------------------------------------------------------
(* The stat counter of main.js (setInterval) and of app.js                  *)
(* (requestAnimationFrame): one counter element, its observer, its animations *)

\* values of data-count / data-target
CounterTargets == {0, 1, 200}

\* the state of the counter as one record, so that the callbacks compose
CurCounter ==
    [hasCounted |-> hasCounted, observing |-> observing, running |-> running,
     textContent |-> textContent, started |-> started]

CounterBecomes(c) ==
    /\ hasCounted' = c.hasCounted
    /\ observing' = c.observing
    /\ running' = c.running
    /\ textContent' = c.textContent
    /\ started' = c.started

\* one step of an animation that has made k steps: current += increment with
\* increment = target / CounterSteps, so current = k * target / CounterSteps; the
\* animation ends once current reaches the target and then shows the target, and shows
\* Math.floor(current) before
CounterStep(k, tgt) ==
    LET finished == (k + 1) * tgt >= tgt * CounterSteps
    IN  [k |-> k + 1, finished |-> finished,
         text |-> IF finished THEN tgt ELSE ((k + 1) * tgt) \div CounterSteps]

\* main.js animateCounter: the target at once when motion is off, else an interval
AnimateCounterMain(c, tgt, scale) ==
    IF scale = 0
    THEN [c EXCEPT !.started = @ + 1, !.textContent = tgt]
    ELSE [c EXCEPT !.started = @ + 1, !.running = Append(@, 0)]

\* app.js animateCounter: updateCounter() runs once at once and then by frame callbacks
AnimateCounterApp(c, tgt) ==
    LET r == CounterStep(0, tgt)
    IN  [c EXCEPT !.started = @ + 1,
                  !.textContent = r.text,
                  !.running = IF r.finished THEN @ ELSE Append(@, r.k)]

\* main.js statsObserver callback: entries.forEach
RECURSIVE ObserveMain(_, _, _, _)
ObserveMain(c, entries, tgt, scale) ==
    IF entries = <<>> THEN c
    ELSE ObserveMain(IF Head(entries) /\ ~c.hasCounted
                     THEN AnimateCounterMain([c EXCEPT !.hasCounted = TRUE], tgt, scale)
                     ELSE c,
                     Tail(entries), tgt, scale)

\* app.js observer callback: entries.forEach
RECURSIVE ObserveApp(_, _, _)
ObserveApp(c, entries, tgt) ==
    IF entries = <<>> THEN c
    ELSE ObserveApp(IF Head(entries)
                    THEN [AnimateCounterApp(c, tgt) EXCEPT !.observing = FALSE]
                    ELSE c,
                    Tail(entries), tgt)

\* the records of one delivery: the isIntersecting of each record queued for the
\* observed element since the delivery before
EntryLists == UNION {[1..n -> BOOLEAN] : n \in 1..MaxEntries}

\* a page with one stat counter, observed, not yet animated
InitCounter ==
    /\ lastOp = "input"
    /\ wasRunning = FALSE
    /\ CONFIG = DefaultConfig
    /\ rect = [width |-> 200, height |-> 150]
    /\ now = 0
    /\ motionScale = 0
    /\ hidden = FALSE
    /\ resizeTimeout = FALSE
    /\ checkMotion = FALSE
    /\ particles = Blank.particles
    /\ lines = Blank.lines
    /\ animationFrame = Blank.animationFrame
    /\ pending = Blank.pending
    /\ isVisible = Blank.isVisible
    /\ lastFrameTime = Blank.lastFrameTime
    /\ canvasAttached = Blank.canvasAttached
    /\ container = FALSE
    /\ ctxOk = TRUE
    /\ registered = {}
    /\ threw = FALSE
    /\ DebounceIdle
    /\ MotionIdle
    /\ MenuIdle
    /\ FormIdle
    /\ motionUtils \in BOOLEAN
    /\ motionEnabled \in BOOLEAN
    /\ cssValue = SetMotionScale(motionEnabled)
    /\ counterScript \in {"main", "app"}
    /\ target \in CounterTargets
    /\ hasCounted = FALSE
    /\ observing = TRUE
    /\ running = <<>>
    /\ textContent = 0
    /\ started = 0

\* what the counter scripts do not touch
CounterFrameVars ==
    <<CONFIG, rect, canvasAttached, particles, lines, animationFrame, pending, isVisible,
      lastFrameTime, motionScale, hidden, resizeTimeout, checkMotion, now, motionEnabled,
      cssValue, loadVars, debounceVars, motionVars, counterScript, target,
      menuVars, formVars>>

\* the intersection observer delivers its queued records to the callback
Intersect ==
    /\ observing
    /\ lastOp' = "intersect"
    /\ wasRunning' = (animationFrame # Null)
    /\ \E entries \in EntryLists :
          CounterBecomes(
              IF counterScript = "main"
              THEN ObserveMain(CurCounter, entries, target,
                               IF motionUtils THEN GetMotionScale(cssValue) ELSE 1)
              ELSE ObserveApp(CurCounter, entries, target))
    /\ UNCHANGED CounterFrameVars

\* a scheduled step of one of the animations runs: the interval callback of main.js,
\* the frame callback of app.js
CounterTick ==
    /\ lastOp' = "counterStep"
    /\ wasRunning' = (animationFrame # Null)
    /\ \E i \in DOMAIN running :
          LET r == CounterStep(running[i], target)
          IN  /\ textContent' = r.text
              /\ running' = IF r.finished
                            THEN SubSeq(running, 1, i - 1) \o SubSeq(running, i + 1, Len(running))
                            ELSE [running EXCEPT ![i] = r.k]
    /\ UNCHANGED <<hasCounted, observing, started>>
    /\ UNCHANGED CounterFrameVars

NextCounter ==
    \/ Intersect
    \/ CounterTick

SpecCounter == InitCounter /\ [][NextCounter]_vars

----------------------------------------------------------------------------
(* Harness for drawConnections: one connection pass over any particle list *)

\* coordinates of the harness, in length units: 0, 50, 120 and 170 px; 0 and 90 px
ConnXs == {0, 50 * Scale, 120 * Scale, 170 * Scale}
ConnYs == {0, 90 * Scale}

\* a particle as update() leaves it, at the given place of a 200 x 150 px field
ParticleAt(px, py) ==
    [x |-> px, y |-> py, size |-> 20, speedX |-> 2, speedY |-> 0, opacity |-> <<5, 10>>,
     connections |-> 0, canvasWidth |-> 200 * Scale, canvasHeight |-> 150 * Scale]

ConnInputs == {ParticleAt(px, py) : px \in ConnXs, py \in ConnYs}

\* the variables a harness does not touch
Idle ==
    /\ rect = [width |-> 200, height |-> 150]
    /\ canvasAttached = TRUE
    /\ animationFrame = Null
    /\ pending = {}
    /\ isVisible = TRUE
    /\ lastFrameTime = 0
    /\ hidden = FALSE
    /\ resizeTimeout = FALSE
    /\ checkMotion = FALSE
    /\ now = 0
    /\ motionEnabled = TRUE
    /\ cssValue = "1"
    /\ container = TRUE
    /\ ctxOk = TRUE
    /\ motionUtils = TRUE
    /\ registered = {"resize", "visibilitychange", "beforeunload", "particlesAPI"}
    /\ threw = FALSE
    /\ DebounceIdle
    /\ MotionIdle
    /\ CounterIdle
    /\ MenuIdle
    /\ FormIdle

InitConn ==
    /\ lastOp = "input"
    /\ wasRunning = FALSE
    /\ Idle
    /\ motionScale = 1
    /\ lines = <<>>
    /\ \E cap \in 0..MaxCap : CONFIG = AssignConfig(DefaultConfig, [maxConnections |-> cap])
    /\ \E n \in 0..MaxParticles : particles \in [1..n -> ConnInputs]

\* drawConnections() on the list as it stands
ConnectionPass ==
    /\ lastOp = "input"
    /\ lastOp' = "drawConnections"
    /\ wasRunning' = (animationFrame # Null)
    /\ UNCHANGED <<loadVars, debounceVars, motionVars, counterVars, menuVars, formVars>>
    /\ LET drawn == DrawConnections(particles, lines, CONFIG)
       IN  particles' = drawn.particles /\ lines' = drawn.lines
    /\ UNCHANGED <<CONFIG, rect, canvasAttached, animationFrame, pending, isVisible,
                   lastFrameTime, motionScale, hidden, resizeTimeout, checkMotion, now,
                   motionEnabled, cssValue>>

NextConn == ConnectionPass

SpecConn == InitConn /\ [][NextConn]_vars

----------------------------------------------------------------------------
(* Harness for Particle.update: up to two updates of any particle of a field *)

UpdWidth == 100 * Scale
UpdHeight == 80 * Scale
\* positions reset() can give: the origin, next to it, inside, and just below the far edge
UpdXs == {0, 1, UpdWidth \div 2, UpdWidth - 1}
UpdYs == {0, UpdHeight - 1}
UpdSpeeds == {-4, -2, 0, 2, 4}
\* numerators of deltaTime: the first frame after start() (wall clock against frame
\* clock), no time, half a frame, a frame, the cap
UpdDeltas == {FrameUnits - TimeOrigin, 0, 1, FrameUnits, DeltaCap * FrameUnits}

UpdInputs ==
    {[x |-> px, y |-> py, size |-> 20, speedX |-> vx, speedY |-> vy, opacity |-> <<5, 10>>,
      connections |-> c, canvasWidth |-> UpdWidth, canvasHeight |-> UpdHeight] :
        px \in UpdXs, py \in UpdYs, vx \in UpdSpeeds, vy \in UpdSpeeds, c \in {0, 2}}

InitUpdate ==
    /\ lastOp = "input"
    /\ wasRunning = FALSE
    /\ Idle
    /\ motionScale \in {0, 1}
    /\ lines = <<>>
    /\ CONFIG = DefaultConfig
    /\ \E p \in UpdInputs : particles = <<p>>

\* particle.update(deltaTime) with deltaTime = dtN / FrameUnits
ApplyUpdate(dtN) ==
    /\ lastOp \in {"input", "update"}
    /\ lastOp' = IF lastOp = "input" THEN "update" ELSE "update2"
    /\ wasRunning' = (animationFrame # Null)
    /\ UNCHANGED <<loadVars, debounceVars, motionVars, counterVars, menuVars, formVars>>
    /\ particles' = [k \in DOMAIN particles |-> Update(particles[k], dtN, motionScale)]
    /\ UNCHANGED <<CONFIG, rect, canvasAttached, lines, animationFrame, pending, isVisible,
                   lastFrameTime, motionScale, hidden, resizeTimeout, checkMotion, now,
                   motionEnabled, cssValue>>

NextUpdate == \E dtN \in UpdDeltas : ApplyUpdate(dtN)

SpecUpdate == InitUpdate /\ [][NextUpdate]_vars

----------------------------------------------------------------------------
(* Harness for animate: up to two ticks over a field that was just started or *)
(* has just run a frame                                                       *)

\* particles of the harness
MaxTickParticles == 2

\* a particle as reset() leaves it on a 200 x 150 px field
TickInputs ==
    {[x |-> px, y |-> 50 * Scale, size |-> 20, speedX |-> vx, speedY |-> 0,
      opacity |-> <<5, 10>>, connections |-> 0,
      canvasWidth |-> 200 * Scale, canvasHeight |-> 150 * Scale] :
        px \in {100 * Scale, 150 * Scale}, vx \in {0, 2}}

\* the loop is running: one callback is scheduled; lastFrameTime is the timestamp of
\* the frame before (the frame clock) or what start() stored (the wall clock)
InitTick ==
    /\ lastOp = "input"
    /\ wasRunning = FALSE
    /\ rect = [width |-> 200, height |-> 150]
    /\ canvasAttached = TRUE
    /\ animationFrame = 1
    /\ pending = {1}
    /\ isVisible = TRUE
    /\ now = 0
    /\ lastFrameTime \in {now, DateNow(now)}
    /\ hidden = FALSE
    /\ resizeTimeout = FALSE
    /\ checkMotion = FALSE
    /\ motionEnabled = TRUE
    /\ cssValue = "1"
    /\ container = TRUE
    /\ ctxOk = TRUE
    /\ motionUtils = TRUE
    /\ registered = {"resize", "visibilitychange", "beforeunload", "particlesAPI"}
    /\ threw = FALSE
    /\ DebounceIdle
    /\ MotionIdle
    /\ CounterIdle
    /\ MenuIdle
    /\ FormIdle
    /\ motionScale \in {0, 1}
    /\ lines = <<>>
    /\ \E cap \in {1, 3} : CONFIG = AssignConfig(DefaultConfig, [maxConnections |-> cap])
    /\ \E n \in 0..MaxTickParticles : particles \in [1..n -> TickInputs]

\* the browser calls animate(currentTime), elapsed after the instant before
Tick(elapsed) ==
    /\ lastOp \in {"input", "tick"}
    /\ lastOp' = IF lastOp = "input" THEN "tick" ELSE "tick2"
    /\ wasRunning' = (animationFrame # Null)
    /\ UNCHANGED <<loadVars, debounceVars, motionVars, counterVars, menuVars, formVars>>
    /\ now' = now + elapsed
    /\ Becomes(Animate([Cur EXCEPT !.pending = @ \ {animationFrame}], now', CONFIG,
                       motionScale))
    /\ UNCHANGED <<CONFIG, rect, motionScale, hidden, resizeTimeout, checkMotion,
                   motionEnabled, cssValue>>

NextTick == \E elapsed \in {0, FrameUnits, MaxElapsed} : Tick(elapsed)

SpecTick == InitTick /\ [][NextTick]_vars

----------------------------------------------------------------------------
(* The mobile navigation of main.js: the toggle button, the menu, the body  *)
(* scroll lock and the focus trap.  An action is the dispatch of one event: *)
(* the listeners of the target, then those of the document.                 *)

MaxMenuItems == 2
MaxFocusTimers == 2

\* a page on which the particle script has not run
BlankPage ==
    /\ wasRunning = FALSE
    /\ CONFIG = DefaultConfig
    /\ rect = [width |-> 200, height |-> 150]
    /\ now = 0
    /\ motionScale = 0
    /\ hidden = FALSE
    /\ resizeTimeout = FALSE
    /\ checkMotion = FALSE
    /\ particles = Blank.particles
    /\ lines = Blank.lines
    /\ animationFrame = Blank.animationFrame
    /\ pending = Blank.pending
    /\ isVisible = Blank.isVisible
    /\ lastFrameTime = Blank.lastFrameTime
    /\ canvasAttached = Blank.canvasAttached
    /\ container = FALSE
    /\ ctxOk = TRUE
    /\ registered = {}
    /\ threw = FALSE
    /\ motionUtils = FALSE
    /\ motionEnabled = FALSE
    /\ cssValue = ""

\* the focusable elements of the menu, in document order
MenuLinks == <<"link1", "link2", "link3">>
Focusable(n) == SubSeq(MenuLinks, 1, n)

\* the tab order of the page: the toggle, the menu's elements, the rest of the page
TabOrder(n) == <<"toggle">> \o Focusable(n) \o <<"body">>

IndexOf(seq, e) == CHOOSE k \in DOMAIN seq : seq[k] = e

\* the element the browser focuses on an unprevented Tab or Shift+Tab
TabDefault(n, from, shiftKey) ==
    LET order == TabOrder(n)
        k == IndexOf(order, from)
    IN  IF shiftKey
        THEN order[IF k = 1 THEN Len(order) ELSE k - 1]
        ELSE order[IF k = Len(order) THEN 1 ELSE k + 1]

\* the state of the menu as one record, so that the listeners of one event compose
CurMenu ==
    [ariaExpanded |-> ariaExpanded, menuOpen |-> menuOpen, overflow |-> overflow,
     trapAttached |-> trapAttached, firstFocusable |-> firstFocusable,
     lastFocusable |-> lastFocusable, activeElement |-> activeElement,
     focusTimers |-> focusTimers]

MenuBecomes(m) ==
    /\ ariaExpanded' = m.ariaExpanded
    /\ menuOpen' = m.menuOpen
    /\ overflow' = m.overflow
    /\ trapAttached' = m.trapAttached
    /\ firstFocusable' = m.firstFocusable
    /\ lastFocusable' = m.lastFocusable
    /\ activeElement' = m.activeElement
    /\ focusTimers' = m.focusTimers

\* trapFocus(navMenu)
TrapFocus(m, n) ==
    LET els == Focusable(n)
        first == IF els = <<>> THEN "undefined" ELSE els[1]
        last == IF els = <<>> THEN "undefined" ELSE els[Len(els)]
    IN  [m EXCEPT !.firstFocusable = first,
                  !.lastFocusable = last,
                  !.trapAttached = TRUE,
                  !.focusTimers = IF first # "undefined" THEN @ + 1 ELSE @]

\* releaseFocus()
ReleaseFocus(m) == [m EXCEPT !.trapAttached = FALSE]

\* variant of the toggle's click listener that leaves the focus trap attached, used to
\* test the consistency of the menu
ToggleListenerKeepsTrap(m, n) ==
    LET isExpanded == (m.ariaExpanded = "true")
        m1 == [m EXCEPT !.ariaExpanded = IF isExpanded THEN "false" ELSE "true",
                        !.menuOpen = ~@,
                        !.overflow = IF ~isExpanded THEN "hidden" ELSE ""]
    IN  IF ~isExpanded THEN TrapFocus(m1, n) ELSE m1

\* the click listener of the toggle
ToggleListener(m, n) ==
    LET isExpanded == (m.ariaExpanded = "true")
        m1 == [m EXCEPT !.ariaExpanded = IF isExpanded THEN "false" ELSE "true",
                        !.menuOpen = ~@,
                        !.overflow = IF ~isExpanded THEN "hidden" ELSE ""]
    IN  IF ~isExpanded THEN TrapFocus(m1, n) ELSE ReleaseFocus(m1)

\* the click listener of a .nav-link
NavLinkListener(m) ==
    ReleaseFocus([m EXCEPT !.ariaExpanded = "false", !.menuOpen = FALSE, !.overflow = ""])

\* the document's keydown listener for Escape
EscapeListener(m, key) ==
    IF key = "Escape" /\ m.menuOpen
    THEN ReleaseFocus([m EXCEPT !.ariaExpanded = "false", !.menuOpen = FALSE,
                                !.overflow = "", !.activeElement = "toggle"])
    ELSE m

\* the document's click listener; inMenu, inToggle: navMenu.contains(e.target),
\* mobileMenuToggle.contains(e.target)
OutsideListener(m, inMenu, inToggle) ==
    IF m.menuOpen /\ ~inMenu /\ ~inToggle
    THEN ReleaseFocus([m EXCEPT !.ariaExpanded = "false", !.menuOpen = FALSE,
                                !.overflow = ""])
    ELSE m

\* the click listener of an a[href^="#"]; href is "#", or names an element the page
\* has ("found") or has not ("missing"). The element it scrolls to and focuses is part
\* of the rest of the page, "body" in the tab order
AnchorListener(m, href) ==
    IF href = "#" \/ href = "missing" THEN m
    ELSE LET m1 == IF m.menuOpen
                   THEN ReleaseFocus([m EXCEPT !.ariaExpanded = "false",
                                               !.menuOpen = FALSE, !.overflow = ""])
                   ELSE m
         IN  [m1 EXCEPT !.activeElement = "body"]

\* handleFocusTrap(e), followed by the browser's default action when it was not
\* prevented
HandleFocusTrap(m, n, key, shiftKey) ==
    IF key # "Tab" THEN m
    ELSE IF m.trapAttached /\ shiftKey /\ m.activeElement = m.firstFocusable
         THEN [m EXCEPT !.activeElement = m.lastFocusable]
    ELSE IF m.trapAttached /\ ~shiftKey /\ m.activeElement = m.lastFocusable
         THEN [m EXCEPT !.activeElement = m.firstFocusable]
    ELSE [m EXCEPT !.activeElement = TabDefault(n, @, shiftKey)]

\* a click gives the focus to the element clicked, or leaves it, as the browser has it
ClickFocus(m, el) == {m, [m EXCEPT !.activeElement = el]}

Hrefs == {"#", "missing", "found"}

\* what main.js's navigation does not touch
MenuFrame ==
    UNCHANGED <<CONFIG, rect, canvasAttached, particles, lines, animationFrame, pending,
                isVisible, lastFrameTime, motionScale, hidden, resizeTimeout, checkMotion,
                now, motionEnabled, cssValue, wasRunning, loadVars, debounceVars,
                motionVars, counterVars, formVars, menuItems>>

InitMenu ==
    /\ lastOp = "load"
    /\ BlankPage
    /\ DebounceIdle
    /\ MotionIdle
    /\ CounterIdle
    /\ FormIdle
    /\ ariaExpanded = "false"
    /\ menuOpen = FALSE
    /\ overflow = ""
    /\ trapAttached = FALSE
    /\ menuItems \in 0..MaxMenuItems
    /\ firstFocusable = "undefined"
    /\ lastFocusable = "undefined"
    /\ activeElement \in {"body", "toggle"}
    /\ focusTimers = 0

\* a click on the toggle button
ToggleClick ==
    /\ (~menuOpen /\ menuItems > 0) => focusTimers < MaxFocusTimers
    /\ lastOp' = "toggleClick"
    /\ \E f \in ClickFocus(CurMenu, "toggle") :
          MenuBecomes(OutsideListener(ToggleListener(f, menuItems), FALSE, TRUE))
    /\ MenuFrame

\* a click on a link of the menu whose href is a URL or a fragment
NavLinkClick ==
    /\ lastOp' = "navLinkClick"
    /\ \E k \in 1..menuItems, href \in Hrefs \cup {"url"} :
          \E f \in ClickFocus(CurMenu, MenuLinks[k]) :
              MenuBecomes(OutsideListener(
                  IF href \in Hrefs THEN AnchorListener(NavLinkListener(f), href)
                                    ELSE NavLinkListener(f),
                  TRUE, FALSE))
    /\ MenuFrame

\* the Escape key goes down
EscapePress ==
    /\ lastOp' = "escape"
    /\ MenuBecomes(HandleFocusTrap(EscapeListener(CurMenu, "Escape"), menuItems,
                                   "Escape", FALSE))
    /\ MenuFrame

\* a click outside the menu and the toggle, on something that is not a fragment link
OutsideClick ==
    /\ lastOp' = "outsideClick"
    /\ \E f \in ClickFocus(CurMenu, "body") :
          MenuBecomes(OutsideListener(f, FALSE, FALSE))
    /\ MenuFrame

\* a click on a fragment link outside the menu
AnchorClick ==
    /\ lastOp' = "anchorClick"
    /\ \E href \in Hrefs :
          \E f \in ClickFocus(CurMenu, "body") :
              MenuBecomes(OutsideListener(AnchorListener(f, href), FALSE, FALSE))
    /\ MenuFrame

\* the Tab key goes down, with or without Shift
TabPress ==
    /\ lastOp' = "tab"
    /\ \E shiftKey \in BOOLEAN :
          MenuBecomes(HandleFocusTrap(EscapeListener(CurMenu, "Tab"), menuItems,
                                      "Tab", shiftKey))
    /\ MenuFrame

\* a 100 ms timer of trapFocus fires: firstFocusable.focus(), which has no effect on an
\* element the closed menu does not render
FocusTimer ==
    /\ focusTimers > 0
    /\ lastOp' = "focusTimer"
    /\ \E shown \in {TRUE, menuOpen} :
          MenuBecomes([CurMenu EXCEPT !.focusTimers = @ - 1,
                                      !.activeElement = IF shown THEN firstFocusable ELSE @])
    /\ MenuFrame

NextMenu ==
    \/ ToggleClick
    \/ NavLinkClick
    \/ EscapePress
    \/ OutsideClick
    \/ AnchorClick
    \/ TabPress
    \/ FocusTimer

SpecMenu == InitMenu /\ [][NextMenu]_vars

----------------------------------------------------------------------------
(* The donation form: form-validation.js, and the FormHandler of app.js for *)
(* the pages built on that bundle.  A field value is a sequence of          *)
(* characters; the checkbox carries its checked state.                      *)

MaxInFlight == 1

\* the required fields of the form, in document order
FormFields == <<"businessName", "quantity", "terms">>
Required == {FormFields[k] : k \in DOMAIN FormFields}

\* what the user can have typed or chosen in a field
FieldValues(name) ==
    CASE name = "businessName" -> {<<>>, <<"a", " ">>, <<"a", "b">>}
      [] name = "quantity" -> {<<>>, <<"0">>, <<"5">>}
      [] name = "terms" -> BOOLEAN

\* the values of form.reset()
DefaultValues == [name \in Required |-> IF name = "terms" THEN FALSE ELSE <<>>]

\* String.prototype.trim
RECURSIVE TrimStart(_)
TrimStart(str) ==
    IF str # <<>> /\ Head(str) = " " THEN TrimStart(Tail(str)) ELSE str
RECURSIVE TrimEnd(_)
TrimEnd(str) ==
    IF str # <<>> /\ str[Len(str)] = " " THEN TrimEnd(SubSeq(str, 1, Len(str) - 1)) ELSE str
Trim(str) == TrimEnd(TrimStart(str))

\* parseInt(value, 10): the digits at the front of the trimmed string, NaN without one
Digits == <<"0", "1", "2", "3", "4", "5", "6", "7", "8", "9">>
IsDigit(c) == \E d \in DOMAIN Digits : Digits[d] = c
DigitValue(c) == (CHOOSE d \in DOMAIN Digits : Digits[d] = c) - 1
RECURSIVE ParseDigits(_, _)
ParseDigits(str, acc) ==
    IF str # <<>> /\ IsDigit(Head(str))
    THEN ParseDigits(Tail(str), acc * 10 + DigitValue(Head(str)))
    ELSE acc
ParseInt(value) ==
    LET str == TrimStart(value)
        neg == str # <<>> /\ Head(str) = "-"
        body == IF str # <<>> /\ Head(str) \in {"-", "+"} THEN Tail(str) ELSE str
    IN  IF body = <<>> \/ ~IsDigit(Head(body))
        THEN [isNaN |-> TRUE, n |-> 0]
        ELSE [isNaN |-> FALSE,
              n |-> IF neg THEN 0 - ParseDigits(body, 0) ELSE ParseDigits(body, 0)]

\* form-validation.js: the names that have a validator, and validators[name].test(value)
ValidatorNames ==
    {"businessName", "contactName", "email", "phone", "foodType", "quantity",
     "pickupTime", "terms"}
ValidatorTest(name, value) ==
    CASE name = "businessName" -> Len(Trim(value)) >= 2
      [] name = "quantity" -> LET num == ParseInt(value) IN ~num.isNaN /\ num.n > 0
      [] name = "terms" -> value = TRUE

\* the state of the form as one record, so that the steps of a listener compose
CurForm ==
    [values |-> values, fieldError |-> fieldError, successHidden |-> successHidden,
     errorHidden |-> errorHidden, errorText |-> errorText, loading |-> loading,
     disabled |-> disabled, ariaBusy |-> ariaBusy, inflight |-> inflight,
     focused |-> focused, formClearTimers |-> formClearTimers,
     formDisplay |-> formDisplay, appTimers |-> appTimers, lastEvent |-> lastEvent,
     liveText |-> liveText]

FormBecomes(f) ==
    /\ values' = f.values
    /\ fieldError' = f.fieldError
    /\ successHidden' = f.successHidden
    /\ errorHidden' = f.errorHidden
    /\ errorText' = f.errorText
    /\ loading' = f.loading
    /\ disabled' = f.disabled
    /\ ariaBusy' = f.ariaBusy
    /\ inflight' = f.inflight
    /\ focused' = f.focused
    /\ formClearTimers' = f.formClearTimers
    /\ formDisplay' = f.formDisplay
    /\ appTimers' = f.appTimers
    /\ lastEvent' = f.lastEvent
    /\ liveText' = f.liveText

\* form-validation.js: validateField(field)
ValidateField(f, name) ==
    IF name \notin ValidatorNames THEN f
    ELSE IF ~ValidatorTest(name, f.values[name])
         THEN [f EXCEPT !.fieldError = @ \cup {name}]
         ELSE [f EXCEPT !.fieldError = @ \ {name}]

\* whether validateField(field) returns true
FieldValid(f, name) == name \notin ValidatorNames \/ ValidatorTest(name, f.values[name])

\* form-validation.js: validateForm(), every required field in turn
RECURSIVE ValidateFields(_, _)
ValidateFields(f, names) ==
    IF names = <<>> THEN f ELSE ValidateFields(ValidateField(f, Head(names)), Tail(names))
ValidateForm(f) == \A name \in Required : FieldValid(f, name)

\* form.querySelector('.error'): the first field in document order with the class
FirstError(f) ==
    IF f.fieldError = {} THEN "none"
    ELSE FormFields[CHOOSE k \in DOMAIN FormFields :
                        /\ FormFields[k] \in f.fieldError
                        /\ \A j \in 1..(k - 1) : FormFields[j] \notin f.fieldError]

\* form-validation.js: announceToScreenReader(message) on a page with or without the
\* live region
AnnounceForm(f, region, message) ==
    IF region THEN [f EXCEPT !.liveText = message, !.formClearTimers = TRUE] ELSE f

\* form-validation.js: setLoading(loading)
SetLoading(f, on) ==
    [f EXCEPT !.loading = on, !.disabled = on, !.ariaBusy = IF on THEN "true" ELSE "false"]

\* form-validation.js: showSuccess() and showError(message); message "" is a falsy one
ShowSuccess(f, region) ==
    AnnounceForm([f EXCEPT !.successHidden = FALSE, !.errorHidden = TRUE], region,
                 "Thank you! Your donation has been submitted successfully.")
ShowError(f, region, message) ==
    AnnounceForm([f EXCEPT !.errorText = IF message = "" THEN "An error occurred. Please try again."
                                         ELSE message,
                           !.errorHidden = FALSE,
                           !.successHidden = TRUE],
                 region, "An error occurred. Please try again.")

\* variant of the submit listener that goes on to submit an invalid form, used to test
\* the validation gate
SubmitListenerUngated(f, region) ==
    LET f1 == ValidateFields([f EXCEPT !.successHidden = TRUE, !.errorHidden = TRUE],
                             FormFields)
    IN  [SetLoading(f1, TRUE) EXCEPT !.inflight = @ + 1]

\* form-validation.js: the submit listener up to its await
SubmitListener(f, region) ==
    LET f1 == ValidateFields([f EXCEPT !.successHidden = TRUE, !.errorHidden = TRUE],
                             FormFields)
    IN  IF ~ValidateForm(f)
        THEN LET f2 == AnnounceForm(f1, region,
                                    "Form has errors. Please correct them and try again.")
             IN  IF FirstError(f2) # "none" THEN [f2 EXCEPT !.focused = FirstError(f2)]
                 ELSE f2
        ELSE [SetLoading(f1, TRUE) EXCEPT !.inflight = @ + 1]

\* how submitDonation(data) settles: resolved with success, resolved without (with or
\* without an error text), rejected with an Error
Outcomes ==
    {[kind |-> "success", message |-> ""],
     [kind |-> "failure", message |-> ""],
     [kind |-> "failure", message |-> "Invalid form data"],
     [kind |-> "reject", message |-> "Server error. Please try again later."]}

\* variant of the continuation whose loading state ends only on success, used to test
\* the end of the loading state
SubmitContinuationNoFinally(f, region, outcome) ==
    IF outcome.kind = "success"
    THEN SetLoading([ShowSuccess(f, region) EXCEPT !.values = DefaultValues,
                                                    !.fieldError = {},
                                                    !.inflight = @ - 1], FALSE)
    ELSE [ShowError(f, region, IF outcome.kind = "failure" /\ outcome.message = ""
                               THEN "Submission failed" ELSE outcome.message)
            EXCEPT !.inflight = @ - 1]

\* form-validation.js: the submit listener after its await: try, catch, finally
SubmitContinuation(f, region, outcome) ==
    LET f1 == IF outcome.kind = "success"
              THEN [ShowSuccess(f, region) EXCEPT !.values = DefaultValues,
                                                  !.fieldError = {}]
              ELSE ShowError(f, region,
                             IF outcome.kind = "failure" /\ outcome.message = ""
                             THEN "Submission failed" ELSE outcome.message)
    IN  SetLoading([f1 EXCEPT !.inflight = @ - 1], FALSE)

\* app.js: the fields FormHandler looks at (.form-input[required]), and validateField
AppFields == <<"businessName", "quantity">>
AppFieldValid(f, name) ==
    LET value == Trim(f.values[name])
        num == ParseInt(value)
    IN  /\ value # <<>>
        /\ ~(name = "quantity" /\ ~num.isNaN /\ num.n < 0)

\* app.js: validateField(input) with its showError / clearError
AppValidateField(f, name) ==
    IF AppFieldValid(f, name) THEN [f EXCEPT !.fieldError = @ \ {name}]
    ELSE [f EXCEPT !.fieldError = @ \cup {name}]

RECURSIVE AppValidateFields(_, _)
AppValidateFields(f, names) ==
    IF names = <<>> THEN f
    ELSE AppValidateFields(AppValidateField(f, Head(names)), Tail(names))
AppValidateForm(f) == \A k \in DOMAIN AppFields : AppFieldValid(f, AppFields[k])

\* variant of app.js's submit listener that goes on to submit an invalid form
AppSubmitListenerUngated(f) ==
    [AppValidateFields(f, AppFields) EXCEPT !.loading = TRUE, !.disabled = TRUE,
                                            !.inflight = @ + 1]

\* app.js: the submit listener up to its await
AppSubmitListener(f) ==
    LET f1 == AppValidateFields(f, AppFields)
    IN  IF ~AppValidateForm(f)
        THEN [f1 EXCEPT !.lastEvent = "form_validation_failed"]
        ELSE [f1 EXCEPT !.loading = TRUE, !.disabled = TRUE, !.inflight = @ + 1]

\* app.js: the submit listener after its await
AppSubmitContinuation(f, resolved) ==
    LET f1 == IF resolved
              THEN [f EXCEPT !.formDisplay = "none", !.successHidden = FALSE,
                             !.lastEvent = "form_submit success",
                             !.appTimers = @ \cup {"reset"}]
              ELSE [f EXCEPT !.errorHidden = FALSE,
                             !.lastEvent = "form_submit failure",
                             !.appTimers = @ \cup {"hideError"}]
    IN  [f1 EXCEPT !.loading = FALSE, !.disabled = FALSE, !.inflight = @ - 1]

\* what the form scripts do not touch
FormFrame ==
    UNCHANGED <<CONFIG, rect, canvasAttached, particles, lines, animationFrame, pending,
                isVisible, lastFrameTime, motionScale, hidden, resizeTimeout, checkMotion,
                now, motionEnabled, cssValue, wasRunning, loadVars, debounceVars,
                storage, prefersReducedMotion, motionToggleBtn, liveRegion, clearTimers,
                counterVars, menuVars, formScript>>

InitForm ==
    /\ lastOp = "load"
    /\ BlankPage
    /\ DebounceIdle
    /\ CounterIdle
    /\ MenuIdle
    /\ storage = "true"
    /\ prefersReducedMotion = FALSE
    /\ motionToggleBtn = TRUE
    /\ liveRegion \in BOOLEAN
    /\ liveText = ""
    /\ clearTimers = 0
    /\ formScript \in {"form-validation", "app"}
    /\ values = DefaultValues
    /\ fieldError = {}
    /\ successHidden = TRUE
    /\ errorHidden = TRUE
    /\ errorText = ""
    /\ loading = FALSE
    /\ disabled = FALSE
    /\ ariaBusy = ""
    /\ inflight = 0
    /\ focused = "none"
    /\ formClearTimers = FALSE
    /\ formDisplay = ""
    /\ appTimers = {}
    /\ lastEvent = ""

\* the user changes a field: the input (and change) listeners
FieldInput ==
    /\ lastOp' = "input"
    /\ \E name \in Required :
          \E value \in FieldValues(name) \ {values[name]} :
              LET f == [CurForm EXCEPT !.values[name] = value]
              IN  IF formScript = "form-validation"
                  THEN FormBecomes(IF name \in f.fieldError THEN ValidateField(f, name)
                                   ELSE f)
                  ELSE FormBecomes(IF \E k \in DOMAIN AppFields : AppFields[k] = name
                                   THEN [f EXCEPT !.fieldError = @ \ {name}]
                                   ELSE f)
    /\ FormFrame

\* a field loses the focus: the blur listeners
FieldBlur ==
    /\ lastOp' = "blur"
    /\ \E name \in Required :
          IF formScript = "form-validation"
          THEN FormBecomes(ValidateField(CurForm, name))
          ELSE FormBecomes(IF \E k \in DOMAIN AppFields : AppFields[k] = name
                           THEN AppValidateField(CurForm, name)
                           ELSE CurForm)
    /\ FormFrame

\* form-validation.js: a submit event
Submit ==
    /\ formScript = "form-validation"
    /\ inflight < MaxInFlight
    /\ lastOp' = "submit"
    /\ FormBecomes(SubmitListener(CurForm, liveRegion))
    /\ FormFrame

\* form-validation.js: the promise of submitDonation settles and the listener goes on
Settle ==
    /\ formScript = "form-validation"
    /\ inflight > 0
    /\ lastOp' = "settle"
    /\ \E outcome \in Outcomes : FormBecomes(SubmitContinuation(CurForm, liveRegion, outcome))
    /\ FormFrame

\* form-validation.js: a 3000 ms timer of announceToScreenReader fires; others may
\* still be pending
FormAnnounceTimer ==
    /\ formClearTimers
    /\ lastOp' = "formAnnounceTimer"
    /\ \E more \in BOOLEAN :
          FormBecomes([CurForm EXCEPT !.liveText = "", !.formClearTimers = more])
    /\ FormFrame

\* app.js: a submit event
AppSubmit ==
    /\ formScript = "app"
    /\ inflight < MaxInFlight
    /\ lastOp' = "submit"
    /\ FormBecomes(AppSubmitListener(CurForm))
    /\ FormFrame

\* app.js: the promise of API.postDonation settles and the listener goes on
AppSettle ==
    /\ formScript = "app"
    /\ inflight > 0
    /\ lastOp' = "settle"
    /\ \E resolved \in BOOLEAN : FormBecomes(AppSubmitContinuation(CurForm, resolved))
    /\ FormFrame

\* app.js: a 5000 ms timer fires; another of its kind may still be pending
AppTimer ==
    /\ lastOp' = "appTimer"
    /\ \E kind \in appTimers, more \in BOOLEAN :
          LET f == [CurForm EXCEPT !.appTimers = IF more THEN @ ELSE @ \ {kind}]
          IN  FormBecomes(IF kind = "reset"
                          THEN [f EXCEPT !.values = DefaultValues, !.formDisplay = "flex",
                                         !.successHidden = TRUE]
                          ELSE [f EXCEPT !.errorHidden = TRUE])
    /\ FormFrame

NextForm ==
    \/ FieldInput
    \/ FieldBlur
    \/ Submit
    \/ Settle
    \/ FormAnnounceTimer
    \/ AppSubmit
    \/ AppSettle
    \/ AppTimer

SpecForm == InitForm /\ [][NextForm]_vars

\* the timers behind submitDonation and API.postDonation fire
SpecFormFair == SpecForm /\ WF_vars(Settle) /\ WF_vars(AppSettle)

----------------------------------------------------------------------------
(* Properties *)

\* everything but the two history variables
progVars == <<CONFIG, rect, canvasAttached, particles, lines, animationFrame, pending,
              isVisible, lastFrameTime, motionScale, hidden, resizeTimeout, checkMotion,
              now, motionEnabled, cssValue, container, ctxOk, motionUtils, registered,
              threw, debounceVars, motionVars, counterVars, menuVars, formVars>>

\* the squared distance of particles i and j, and the squared cutoff
Dist2(i, j) ==
    (particles[j].x - particles[i].x) * (particles[j].x - particles[i].x)
    + (particles[j].y - particles[i].y) * (particles[j].y - particles[i].y)
Cutoff2 == (CONFIG.connectionDistance * Scale) * (CONFIG.connectionDistance * Scale)

\* the lifecycle states of the specification, read off the script's state: destroy() is
\* the only place that detaches the canvas, and nothing attaches it again
Destroyed == ~canvasAttached
Running == canvasAttached /\ isVisible
Stopped == canvasAttached /\ ~isVisible

\* C1: degree cap. After the connection pass every particle's connection count is
\* between 0 and maxConnections.
C1_DegreeCap ==
    lastOp = "drawConnections" =>
        \A k \in DOMAIN particles :
            /\ 0 <= particles[k].connections
            /\ particles[k].connections <= CONFIG.maxConnections

\* C2: with maxConnections = 1 the pass connects particle 0 (index 1 here) to its
\* lowest-index neighbour within connectionDistance and to no later one.
C2_FirstNeighbourOnly ==
    (lastOp = "drawConnections" /\ CONFIG.maxConnections = 1 /\ Len(particles) >= 1) =>
        LET neighbours == {j \in 2..Len(particles) : Dist2(1, j) < Cutoff2}
            drawn == {k \in DOMAIN lines : lines[k].from = 1}
        IN  IF neighbours = {} THEN drawn = {}
            ELSE \E k \in DOMAIN lines :
                    /\ drawn = {k}
                    /\ lines[k].to \in neighbours
                    /\ \A j \in neighbours : lines[k].to <= j

C4_DestroyTerminal ==
    [][(Destroyed /\ lastOp' = "start") =>
          /\ pending' = pending
          /\ animationFrame' = animationFrame
          /\ particles' = particles
          /\ Destroyed']_vars

\* C5: start() while a frame callback is stored changes nothing: clock, callback id,
\* scheduled callbacks and particles stay as they were.
C5_StartIdempotent ==
    [][(animationFrame # Null /\ lastOp' = "start") => UNCHANGED progVars]_vars

\* start() was called on a loop that had a callback stored
C5_Witness ==
    /\ lastOp = "start"
    /\ wasRunning
    /\ Cardinality(pending) = 1

\* C6: stop() in Stopped changes nothing.
C6_StopIdempotent ==
    [][(Stopped /\ animationFrame = Null /\ lastOp' = "stop") => UNCHANGED progVars]_vars

\* stop() was called on a stopped loop that still has its particles
C6_Witness ==
    /\ lastOp = "stop"
    /\ ~wasRunning
    /\ Stopped
    /\ Len(particles) > 0

\* C7: with motionScale = 0, update leaves x and y exactly as they were, whatever the
\* velocity and the deltaTime.
C7_ZeroMotionFreeze ==
    [][(motionScale = 0 /\ lastOp' \in {"update", "update2"}) =>
          \A k \in DOMAIN particles :
              /\ particles'[k].x = particles[k].x
              /\ particles'[k].y = particles[k].y]_vars

\* a moving particle was updated with motionScale = 0
C7_Witness ==
    /\ lastOp = "update"
    /\ motionScale = 0
    /\ particles[1].speedX # 0
    /\ particles[1].speedY # 0

\* C8: after the load, reinit(), setConfig() and the debounced resize, the particle
\* count is min(floor(width * height / 15000), CONFIG.particleCount).
C8_DensityScaling ==
    lastOp \in {"load", "reinit", "setConfig", "resizeTimer"} =>
        LET byArea == (rect.width * rect.height) \div 15000
        IN  Len(particles) = IF byArea < CONFIG.particleCount THEN byArea
                             ELSE CONFIG.particleCount

\* an initialisation in which the area asks for more particles than the cap allows
C8_Witness ==
    /\ lastOp \in {"reinit", "setConfig", "resizeTimer"}
    /\ (rect.width * rect.height) \div 15000 > CONFIG.particleCount
    /\ Len(particles) = CONFIG.particleCount
    /\ Len(particles) > 0

\* C9: two particles at distance d < connectionDistance, maxConnections >= 1: the pass
\* draws exactly one line, between the two, with alpha
\* lineAlpha * (1 - d / connectionDistance) (d in the model's length unit), and both
\* counts become 1. For (0,0), (50,0) and connectionDistance 120 the alpha is
\* 0.2 * (1 - 50/120) = 7/60.
C9_TwoParticles ==
    (/\ lastOp = "drawConnections"
     /\ Len(particles) = 2
     /\ CONFIG.maxConnections >= 1
     /\ Dist2(1, 2) < Cutoff2) =>
        /\ Len(lines) = 1
        /\ lines[1].from = 1 /\ lines[1].to = 2
        /\ particles[1].connections = 1 /\ particles[2].connections = 1
        /\ \E d \in 0..(CONFIG.connectionDistance * Scale) :
              /\ d * d <= Dist2(1, 2) /\ Dist2(1, 2) < (d + 1) * (d + 1)
              /\ lines[1].opacity[1] * (CONFIG.lineColor.a[2] * CONFIG.connectionDistance * Scale)
                    = CONFIG.lineColor.a[1] * (CONFIG.connectionDistance * Scale - d)
                        * lines[1].opacity[2]
        /\ (/\ particles[1].x = 0 /\ particles[1].y = 0
            /\ particles[2].x = 50 * Scale /\ particles[2].y = 0
            /\ CONFIG.connectionDistance = 120) =>
               lines[1].opacity[1] * 60 = 7 * lines[1].opacity[2]

\* the scenario of the specification: (0,0) and (50,0), cutoff 120, cap 3, one line
C9_Witness ==
    /\ lastOp = "drawConnections"
    /\ Len(particles) = 2
    /\ particles[1].x = 0 /\ particles[1].y = 0
    /\ particles[2].x = 50 * Scale /\ particles[2].y = 0
    /\ CONFIG.connectionDistance = 120
    /\ CONFIG.maxConnections = 3
    /\ Len(lines) = 1

\* C10: exactly one frame callback is scheduled when Running, none when Stopped or
\* Destroyed, and the stored id is non-null exactly when a callback is scheduled.
C10_OneOutstanding ==
    /\ Running => Cardinality(pending) = 1
    /\ (Stopped \/ Destroyed) => pending = {}
    /\ (animationFrame # Null) <=> (pending # {})

\* the frame loop is running: one callback is scheduled, its id is stored, isVisible
LoopRunning == isVisible /\ animationFrame # Null /\ pending = {animationFrame}

\* C11: cancellation is immediate. When stop() or destroy() returns no frame callback
\* is scheduled, and while none is stored no tick runs: the next step that changes
\* particles or schedules a callback is a start or a reinit.
C11_CancelImmediate ==
    [][/\ lastOp' \in {"stop", "destroy", "unload"} =>
              (pending' = {} /\ animationFrame' = Null)
       /\ animationFrame = Null =>
              /\ lastOp' # "frame"
              /\ lastOp' \in {"stop", "toggle", "resize", "poll"} =>
                    (particles' = particles /\ pending' = {})]_vars

\* stop() was called on a loop that had already run frames over a non-empty list
C11_Witness ==
    /\ lastOp = "stop"
    /\ wasRunning
    /\ now > 0
    /\ Len(particles) > 0
    /\ pending = {}

\* C12: after destroy(), from Running or from Stopped, no frame callback is scheduled,
\* the canvas is detached and the particle list is empty.
C12_DestroyEffect ==
    lastOp \in {"destroy", "unload"} =>
        /\ pending = {}
        /\ animationFrame = Null
        /\ ~canvasAttached
        /\ Len(particles) = 0

\* destroy() was called on a running loop
C12_Witness ==
    /\ lastOp = "destroy"
    /\ wasRunning
    /\ now > 0
    /\ ~canvasAttached

\* C13: reinit() and the debounced resize, from Running or Stopped, end in Running
\* with exactly one scheduled callback and a list built from scratch: its length is
\* min(floor(w * h / 15000), particleCount) for the container's current size, every
\* particle lies inside these dimensions and wraps at them, has no connection yet, and
\* the canvas shows no line.
C13_ReinitFresh ==
    (lastOp \in {"reinit", "resizeTimer"} /\ canvasAttached) =>
        LET byArea == (rect.width * rect.height) \div 15000
        IN  /\ Running
            /\ Cardinality(pending) = 1
            /\ animationFrame \in pending
            /\ Len(particles) = IF byArea < CONFIG.particleCount THEN byArea
                                ELSE CONFIG.particleCount
            /\ lines = <<>>
            /\ \A k \in DOMAIN particles :
                  /\ particles[k].canvasWidth = rect.width * Scale
                  /\ particles[k].canvasHeight = rect.height * Scale
                  /\ 0 <= particles[k].x /\ particles[k].x < particles[k].canvasWidth
                  /\ 0 <= particles[k].y /\ particles[k].y < particles[k].canvasHeight
                  /\ particles[k].connections = 0

\* the debounce timer fired on a stopped field after frames had run, two particles built
C13_Witness ==
    /\ lastOp = "resizeTimer"
    /\ canvasAttached
    /\ ~wasRunning
    /\ now > 0
    /\ Len(particles) = 2

\* C14: setConfig(newConfig) overwrites exactly the fields of newConfig, keeps every
\* other field, then reinitialises: the loop runs and the particle count is
\* min(floor(w * h / 15000), particleCount of the merged configuration).
C14_SetConfig ==
    [][lastOp' = "setConfig" =>
          /\ \E nc \in NewConfigs :
                /\ DOMAIN CONFIG' = (DOMAIN CONFIG) \cup (DOMAIN nc)
                /\ \A f \in DOMAIN CONFIG' :
                      CONFIG'[f] = IF f \in DOMAIN nc THEN nc[f] ELSE CONFIG[f]
          /\ LoopRunning'
          /\ LET byArea == (rect'.width * rect'.height) \div 15000
             IN  Len(particles') = IF byArea < CONFIG'.particleCount THEN byArea
                                   ELSE CONFIG'.particleCount]_vars

\* two setConfig calls have accumulated: both fields differ from the defaults
C14_Witness ==
    /\ lastOp = "setConfig"
    /\ CONFIG.particleCount = 1
    /\ CONFIG.maxConnections = 1
    /\ CONFIG.connectionDistance = 120
    /\ Len(particles) = 1
    /\ LoopRunning

\* C17: with pauseWhenHidden set, the page becoming hidden stops a Running field (no
\* callback scheduled afterwards) and the page becoming visible starts a Stopped field
\* (exactly one callback scheduled afterwards).
C17_VisibilityWiring ==
    [][(lastOp' = "visibility" /\ CONFIG.pauseWhenHidden) =>
          /\ (hidden' /\ Running) =>
                (Stopped' /\ pending' = {} /\ animationFrame' = Null)
          /\ (~hidden' /\ Stopped) =>
                (Running' /\ Cardinality(pending') = 1 /\ animationFrame' \in pending')]_vars

\* the page became visible and a stopped field was started
C17_Witness ==
    /\ lastOp = "visibility"
    /\ ~hidden
    /\ ~wasRunning
    /\ Running
    /\ Cardinality(pending) = 1

\* C15: a poll that reads scale 0 while the loop is running performs destroy(); any
\* other poll changes nothing; and, the poll timer being fair, a field cannot stay
\* Running with the scale at 0 for ever: it reaches Destroyed unless the scale is
\* raised or the field is stopped first.
C15_ZeroMotionDestroy ==
    /\ [][lastOp' = "poll" =>
             IF cssValue = "0" /\ isVisible
             THEN /\ Destroyed'
                  /\ pending' = {} /\ animationFrame' = Null
                  /\ Len(particles') = 0
             ELSE UNCHANGED progVars]_vars
    /\ [](cssValue = "0" /\ Running => <>(Destroyed \/ cssValue # "0" \/ Stopped))

\* the poll destroyed a field that had been running frames
C15_Witness ==
    /\ lastOp = "poll"
    /\ wasRunning
    /\ ~checkMotion
    /\ Destroyed
    /\ cssValue = "0"
    /\ now > 0

\* C16: one-way zero-motion destroy. Once the poll has destroyed the field (the poll
\* then clears its own interval, so checkMotion is false from there on), no step other
\* than an explicit API call (reinit, setConfig; start is left out as well) schedules a
\* frame callback or puts a particle in the list again.
C16_OneWayDestroy ==
    [][(/\ ~checkMotion
        /\ Destroyed
        /\ pending = {}
        /\ Len(particles) = 0
        /\ lastOp' \notin {"start", "reinit", "setConfig"}) =>
           (pending' = {} /\ Len(particles') = 0)]_vars


\* the script has left nothing behind: no canvas, no particles, no frame callback,
\* no poll, no debounce timer, no listener and no API
NothingDone ==
    /\ ~canvasAttached
    /\ Len(particles) = 0
    /\ pending = {} /\ animationFrame = Null
    /\ ~checkMotion /\ ~resizeTimeout
    /\ registered = {}

\* C18: when the container element is absent the script stops silently: no canvas,
\* no particles, no frame callback, timer or listener, and no exception.
C18_MissingContainer ==
    (lastOp = "load" /\ ~container) => (NothingDone /\ ~threw)

C18_Witness ==
    lastOp = "load" /\ ~container /\ ctxOk /\ cssValue = "1" /\ rect.width = 200 /\ ~threw

\* C19: when the container exists but getContext gives no context, the script
\* stops without an exception and registers no frame callback, timer or listener.
C19_NoContext ==
    (lastOp = "load" /\ container /\ ~ctxOk) =>
        /\ ~threw
        /\ pending = {} /\ animationFrame = Null
        /\ ~checkMotion /\ ~resizeTimeout
        /\ registered = {}

\* C20: when the motion scale read at load is 0 the script does not initialize:
\* no canvas appended, no particles, no frame callback, poll or listener.
C20_ZeroMotionAtLoad ==
    (lastOp = "load" /\ motionUtils /\ GetMotionScale(cssValue) = 0) =>
        (NothingDone /\ ~threw /\ motionScale = 0)

C20_Witness ==
    /\ lastOp = "load" /\ container /\ ctxOk /\ motionUtils
    /\ cssValue = "0" /\ rect.width = 200 /\ ~canvasAttached

\* C22: per-frame motion scale. A frame callback that runs the tick while the motion
\* signal reads 0 moves no particle.
C22_PerFrameScale ==
    [][(lastOp' = "frame" /\ isVisible /\ GetMotionScale(cssValue) = 0) =>
          /\ Len(particles') = Len(particles)
          /\ \A k \in DOMAIN particles :
                /\ particles'[k].x = particles[k].x
                /\ particles'[k].y = particles[k].y]_vars

\* a coordinate after update: the move by speed * scale * deltaTime, then the wrap
MovedCoordinate(c, speed, scale, dtN, dim) ==
    LET raw == c + (speed * scale * dtN) \div FrameUnits
    IN  IF raw > dim THEN 0 ELSE IF raw < 0 THEN dim ELSE raw

\* C23: delta-time cap. Every tick moves the particles by a deltaTime of
\* (currentTime - lastFrameTime) / 16.67 capped at 2 (never more than 2 however long
\* the gap) and stores currentTime in lastFrameTime.
C23_DeltaCap ==
    [][lastOp' \in {"tick", "tick2"} =>
          LET dtN == Min(now' - lastFrameTime, DeltaCap * FrameUnits)
          IN  /\ dtN <= DeltaCap * FrameUnits
              /\ lastFrameTime' = now'
              /\ Len(particles') = Len(particles)
              /\ \A k \in DOMAIN particles :
                    /\ particles'[k].x =
                          MovedCoordinate(particles[k].x, particles[k].speedX, motionScale,
                                          dtN, particles[k].canvasWidth)
                    /\ particles'[k].y =
                          MovedCoordinate(particles[k].y, particles[k].speedY, motionScale,
                                          dtN, particles[k].canvasHeight)]_vars

\* a moving particle after one tick that came later than two frames after the last
C23_Witness ==
    /\ lastOp = "tick"
    /\ now > DeltaCap * FrameUnits
    /\ lastFrameTime = now
    /\ motionScale = 1
    /\ Len(particles) >= 1
    /\ particles[1].speedX = 2
    /\ particles[1].x = 100 * Scale + 2 * DeltaCap

\* C29: connection counters are transient. After every tick the lines and the counts
\* are those of a connection pass over the tick's positions with all counts at 0,
\* whatever counts the frame before left; a tick that leaves every position where it
\* was draws the lines of the frame before again.
C29_TransientCounters ==
    [][lastOp' \in {"tick", "tick2"} =>
          LET fresh == [k \in DOMAIN particles' |-> [particles'[k] EXCEPT !.connections = 0]]
              same == /\ Len(particles') = Len(particles)
                      /\ \A k \in DOMAIN particles :
                            /\ particles'[k].x = particles[k].x
                            /\ particles'[k].y = particles[k].y
          IN  /\ DrawConnections(fresh, <<>>, CONFIG) =
                    [particles |-> particles', lines |-> lines']
              /\ (lastOp = "tick" /\ same) =>
                    (lines' = lines /\ particles' = particles)]_vars

\* a second frame over unmoved particles that were at the cap after the first
C29_Witness ==
    /\ lastOp = "tick2"
    /\ motionScale = 0
    /\ CONFIG.maxConnections = 1
    /\ Len(particles) = 2
    /\ particles[1].connections = 1
    /\ Len(lines) = 1

\* the wrap rule on a coordinate as computed by the move
WrapRule(raw, after, dim) ==
    /\ raw > dim => after = 0
    /\ raw < 0 => after = dim
    /\ (0 <= raw /\ raw <= dim) => after = raw

\* C26: non-proportional wrap. After update a coordinate that the move took above its
\* dimension is exactly 0, one that the move took below 0 is exactly the dimension,
\* however far it overshot, and one that the move left inside [0, dimension] is kept.
C26_NonProportionalWrap ==
    [][lastOp' \in {"update", "update2"} =>
          \E dtN \in UpdDeltas :
              /\ Len(particles') = Len(particles)
              /\ \A k \in DOMAIN particles :
                    LET p == particles[k]
                        q == particles'[k]
                    IN  /\ WrapRule(p.x + (p.speedX * motionScale * dtN) \div FrameUnits,
                                    q.x, p.canvasWidth)
                        /\ WrapRule(p.y + (p.speedY * motionScale * dtN) \div FrameUnits,
                                    q.y, p.canvasHeight)]_vars

\* a particle moving right that sits on the far edge after one update: the move took
\* it far below 0 (the first frame after start), and one moving up that the same
\* move took far above the height
C26_Witness ==
    /\ lastOp = "update"
    /\ motionScale = 1
    /\ particles[1].speedX = 4
    /\ particles[1].x = particles[1].canvasWidth
    /\ particles[1].speedY = -4
    /\ particles[1].y = 0

\* the pairs the pass has drawn, and the pairs it visited before the pair (i, j):
\* those of earlier outer iterations and the earlier inner candidates of iteration i
DrawnPairs == {<<lines[k].from, lines[k].to>> : k \in DOMAIN lines}
Before(pr, i, j) == pr[1] < i \/ (pr[1] = i /\ pr[2] < j)
\* the count of particle p when the pass reaches the pair (i, j)
CountAt(p, i, j) ==
    Cardinality({pr \in DrawnPairs : Before(pr, i, j) /\ (pr[1] = p \/ pr[2] = p)})

\* C27: budget checks of the connection pass. A pair (i, j), i < j, within the cutoff
\* gets its line exactly when the outer particle i was below maxConnections at the
\* start of its outer iteration and the inner particle j is below maxConnections when
\* the pair is reached; the outer particle's count is not looked at again between
\* inner candidates.
C27_BudgetChecks ==
    lastOp = "drawConnections" =>
        /\ Len(lines) = Cardinality(DrawnPairs)
        /\ \A pr \in DrawnPairs : pr[1] \in DOMAIN particles /\ pr[2] \in DOMAIN particles
        /\ \A i \in DOMAIN particles : \A j \in DOMAIN particles :
              (<<i, j>> \in DrawnPairs) <=>
                  /\ i < j
                  /\ Dist2(i, j) < Cutoff2
                  /\ CountAt(i, i, i + 1) < CONFIG.maxConnections
                  /\ CountAt(j, i, j) < CONFIG.maxConnections
        /\ \A k \in DOMAIN particles :
              particles[k].connections = CountAt(k, Len(particles) + 1, 0)

\* an outer particle that was below the cap when its iteration began and took two
\* lines in that iteration, ending above the cap
C27_Witness ==
    /\ lastOp = "drawConnections"
    /\ CONFIG.maxConnections = 1
    /\ Len(particles) = 3
    /\ <<1, 2>> \in DrawnPairs /\ <<1, 3>> \in DrawnPairs
    /\ particles[1].connections = 2

\* C28: edge rule without cap pressure. When maxConnections >= n - 1 the pass draws
\* one line for each pair i < j whose distance is strictly below connectionDistance,
\* and no other line: none at distance exactly connectionDistance, none twice, none
\* from a particle to itself.
C28_EdgeRule ==
    (lastOp = "drawConnections" /\ CONFIG.maxConnections >= Len(particles) - 1) =>
        /\ Len(lines) = Cardinality(DrawnPairs)
        /\ DrawnPairs = {pr \in (DOMAIN particles) \X (DOMAIN particles) :
                            pr[1] < pr[2] /\ Dist2(pr[1], pr[2]) < Cutoff2}

\* three particles under a cap of 2: one pair at exactly connectionDistance without a
\* line, another pair with one
C28_Witness ==
    /\ lastOp = "drawConnections"
    /\ CONFIG.maxConnections = 2
    /\ Len(particles) = 3
    /\ Dist2(1, 2) = Cutoff2
    /\ <<1, 2>> \notin DrawnPairs
    /\ <<1, 3>> \in DrawnPairs

\* the handlers that rebuild or empty the particle list
Rebuilds == {"reinit", "setConfig", "resizeTimer", "destroy", "poll", "unload"}

\* C30: frame of advance and of the connection pass. A frame changes nothing of a
\* particle but its position and its connection count, and no step other than a
\* reinit or a destroy changes the list's length or a particle's velocity, size,
\* opacity or field dimensions.
C30_Frame ==
    [][lastOp' \notin Rebuilds =>
          /\ Len(particles') = Len(particles)
          /\ \A k \in DOMAIN particles :
                /\ particles'[k].speedX = particles[k].speedX
                /\ particles'[k].speedY = particles[k].speedY
                /\ particles'[k].size = particles[k].size
                /\ particles'[k].opacity = particles[k].opacity
                /\ particles'[k].canvasWidth = particles[k].canvasWidth
                /\ particles'[k].canvasHeight = particles[k].canvasHeight
                /\ DOMAIN particles'[k] = DOMAIN particles[k]
                /\ lastOp' # "frame" =>
                      /\ particles'[k].x = particles[k].x
                      /\ particles'[k].y = particles[k].y
                      /\ particles'[k].connections = particles[k].connections]_vars

\* two particles that have moved and been connected by two frames and still carry one
\* of the velocities they were created with
C30_Witness ==
    /\ lastOp = "frame"
    /\ now >= 2 * FrameUnits
    /\ Len(particles) = 2
    /\ particles[1].connections = 1
    /\ particles[1].x # particles[1].canvasWidth - 1
    /\ <<particles[1].speedX, particles[1].speedY>> \in RandVelocity

\* C24: motion signal range. Once motion.js has run, after any clicks on the toggle,
\* setMotionEnabled calls and system-preference changes, getMotionScale() is 0 or 1,
\* and it is 1 exactly when isMotionEnabled() is true.
C24_SignalRange ==
    motionUtils =>
        /\ GetMotionScale(cssValue) \in {0, 1}
        /\ (GetMotionScale(cssValue) = 1) <=> motionEnabled

\* the system preference turned to reduced motion after the user had stored a choice
\* of motion: the stored choice stands
C24_Witness ==
    /\ lastOp = "mediaChange"
    /\ storage = "true"
    /\ prefersReducedMotion
    /\ motionEnabled
    /\ cssValue = "1"

\* C21: resize debounce. At most one debounce timer is pending; a reinit happens only
\* when the timer fires, ResizeDelay after the last resize event, and a resize event
\* itself changes nothing of the field; every burst of events less than ResizeDelay
\* apart that has ended has had exactly one reinit, and the burst still going on none.
C21_Debounce ==
    /\ [](Cardinality(timers) <= 1)
    /\ [](reinits = bursts - Cardinality(timers))
    /\ [][lastOp' = "resizeTimer" =>
             /\ now' = lastResize + ResizeDelay
             /\ reinits' = reinits + 1
             /\ timers' = {}
             /\ LoopRunning'
             /\ Len(particles') = Min((rect.width * rect.height) \div 15000,
                                      CONFIG.particleCount)]_vars
    /\ [][lastOp' = "resize" =>
             /\ reinits' = reinits
             /\ Cardinality(timers') = 1
             /\ UNCHANGED <<particles, lines, animationFrame, pending, isVisible>>]_vars

\* a burst of three resize events, ended by its one reinit
C21_Witness ==
    /\ lastOp = "resizeTimer"
    /\ resizes = 3
    /\ bursts = 1
    /\ reinits = 1
    /\ now = lastResize + ResizeDelay
    /\ LoopRunning

\* C25: the counter animation runs once and finishes. animateCounter is called at most
\* once for the counter however often the observer reports it, and once its
\* animations have ended the counter shows its target.
C25_CounterOnce ==
    /\ started <= 1
    /\ (started >= 1 /\ running = <<>>) => textContent = target

\* C31: Destroyed survives external triggers. Once the field is destroyed (canvas
\* detached, no frame callback, no particles), a visibility change, a resize event and
\* the debounce timer schedule no frame callback and leave the particle list empty.
C31_DestroyedSurvives ==
    [][(/\ Destroyed
        /\ pending = {}
        /\ Len(particles) = 0
        /\ lastOp' \in {"visibility", "resize", "resizeTimer"}) =>
           (Destroyed' /\ pending' = {} /\ animationFrame' = Null /\ Len(particles') = 0)]_vars

\* C32: paused while hidden. With pauseWhenHidden set, whatever the browser does
\* (visibility changes, resize timers, polls, frames) and without any API call, no
\* frame callback is pending while the page is hidden.
C32_PausedWhileHidden ==
    (hidden /\ CONFIG.pauseWhenHidden) => (pending = {} /\ animationFrame = Null)

\* C33: visibility gating follows the live flag. A visibility change that finds
\* pauseWhenHidden false in the live configuration performs neither stop() nor
\* start(): the loop is left as it is.
C33_LiveFlagGate ==
    [][(lastOp' = "visibility" /\ ~CONFIG.pauseWhenHidden) =>
          UNCHANGED <<animationFrame, pending, isVisible, lastFrameTime>>]_vars

\* C34: delta time is never negative. On every tick, the first after a start() or a
\* reinit included, the deltaTime (currentTime - lastFrameTime) / 16.67 capped at 2 is
\* at least 0, so every particle moves by at most 2 times its speed, along its
\* velocity, before the wrap.
C34_DeltaNonNegative ==
    [][(lastOp' = "frame" /\ isVisible) =>
          LET dtN == Min(now' - lastFrameTime, DeltaCap * FrameUnits)
          IN  /\ 0 <= dtN
              /\ dtN <= DeltaCap * FrameUnits
              /\ \A k \in DOMAIN particles :
                    \E d \in 0..(DeltaCap * FrameUnits) :
                        /\ particles'[k].x =
                              MovedCoordinate(particles[k].x, particles[k].speedX,
                                              motionScale, d, particles[k].canvasWidth)
                        /\ particles'[k].y =
                              MovedCoordinate(particles[k].y, particles[k].speedY,
                                              motionScale, d, particles[k].canvasHeight)]_vars

\* C38: the manual motion preference wins. A toggle click or a setMotionEnabled call
\* stores the choice, a stored choice stays stored, and while a choice is stored a
\* system prefers-reduced-motion change event changes neither the motion-enabled state
\* nor the motion scale; while none is stored, each change event sets motion enabled to
\* the negation of the reduced-motion match and the scale with it.
C38_ManualWins ==
    [][/\ (lastOp' \in {"toggle", "setMotionEnabled"}) => storage' = StoredString(motionEnabled')
       /\ (storage # "null") => storage' # "null"
       /\ (lastOp' = "mediaChange") =>
             IF storage # "null"
             THEN UNCHANGED <<motionEnabled, cssValue>>
             ELSE /\ motionEnabled' = ~prefersReducedMotion'
                  /\ GetMotionScale(cssValue') = (IF motionEnabled' THEN 1 ELSE 0)]_vars

\* the system preference turned to full motion after the user had switched motion off:
\* motion stays off
C38_Witness ==
    /\ lastOp = "mediaChange"
    /\ storage = "false"
    /\ ~prefersReducedMotion
    /\ ~motionEnabled
    /\ GetMotionScale(cssValue) = 0

\* C37: the mobile menu stays consistent. From a closed menu, after any toggle clicks,
\* nav-link clicks, Escape presses, outside clicks and anchor-link clicks, aria-expanded
\* is 'true' exactly when the menu has the class 'open', exactly when the body's
\* scrolling is locked, and exactly when the focus-trap keydown handler is attached.
C37_MenuConsistent ==
    /\ (ariaExpanded = "true") <=> menuOpen
    /\ menuOpen <=> (overflow = "hidden")
    /\ menuOpen <=> trapAttached

\* the menu is open for the second time, both focus timers still pending
C37_Witness ==
    /\ lastOp = "toggleClick"
    /\ menuOpen
    /\ ariaExpanded = "true"
    /\ overflow = "hidden"
    /\ trapAttached
    /\ focusTimers = MaxFocusTimers

\* C35: invalid forms are never submitted. On a submit event the submission call is
\* made only if every required field passed validation in that event (no field carries
\* the error mark afterwards); when validation fails, no call is made and the submit
\* button does not enter the loading, disabled state.
C35_NoInvalidSubmit ==
    [][(lastOp' = "submit") =>
          /\ (inflight' # inflight) => (fieldError' = {} /\ inflight' = inflight + 1)
          /\ (fieldError' # {}) =>
                (inflight' = inflight /\ UNCHANGED <<loading, disabled, ariaBusy>>)]_vars

\* form-validation.js has refused a form, focused its first bad field, and the button
\* is as it was
C35_Witness ==
    /\ lastOp = "submit"
    /\ formScript = "form-validation"
    /\ fieldError = {"quantity", "terms"}
    /\ focused = "quantity"
    /\ inflight = 0
    /\ ~disabled
    /\ ~loading

\* C36: the loading state always ends. Every submit of form-validation.js that puts the
\* submit button into the loading state (disabled, aria-busy 'true') is followed by a
\* state where it has left it (enabled, aria-busy 'false'), whether the submission
\* resolves with success, resolves with success = false or rejects; and at the end
\* exactly one of the success message and the error message is visible.
C36_LoadingEnds ==
    /\ (formScript = "form-validation" /\ disabled /\ ariaBusy = "true")
          ~> (~disabled /\ ~loading /\ ariaBusy = "false")
    /\ [][(formScript = "form-validation" /\ lastOp' = "settle") =>
             /\ ~loading' /\ ~disabled' /\ ariaBusy' = "false"
             /\ successHidden' # errorHidden']_vars

\* a submission resolved with success = false and no error text: the button is enabled
\* again and the error message alone is shown
C36_Witness ==
    /\ lastOp = "settle"
    /\ formScript = "form-validation"
    /\ ~disabled
    /\ ~loading
    /\ ariaBusy = "false"
    /\ ~errorHidden
    /\ successHidden
    /\ errorText = "Submission failed"

====
